---------------------------- MODULE Spec2Model ----------------------------
(***************************************************************************)
(* Chicago taxi fare prediction service: the production application        *)
(* (api/production_app.py), the development application                    *)
(* (api/chicago_fare_api.py) and the artifact classes                      *)
(* (api/model_classes.py), as a state machine.                             *)
(*                                                                         *)
(* Numbers.  A Python float or int is a fixed-point integer counted in     *)
(* units of 1/10000 (5.2 is 52000, 41.8781 is 418781).  A cell of a        *)
(* DataFrame, a JSON value and a response number is a tagged record:       *)
(*   [t |-> "num", n |-> units]   a finite number                          *)
(*   [t |-> "nan"]                float NaN                                *)
(*   [t |-> "str", s |-> text]    a string                                 *)
(*   [t |-> "null"]               JSON null / Python None                  *)
(***************************************************************************)
EXTENDS Integers, Sequences, FiniteSets, TLC

Scale == 100 * 100

Num(n) == [t |-> "num", n |-> n]
Str(s) == [t |-> "str", s |-> s]
NaN == [t |-> "nan"]
Null == [t |-> "null"]
None == [kind |-> "none"]

\* Body applied to the value of v, computed once.
Let(v, Body(_)) == CHOOSE y \in {Body(x) : x \in {v}} : TRUE

\* A whole number k as a fixed-point value.
Whole(k) == Num(k * Scale)

IsNum(v) == v.t = "num"

(***************************************************************************)
(* Float arithmetic on cells.  NaN is absorbing; an operand that is a      *)
(* string or None makes Python raise TypeError, which the callers test     *)
(* with Raises before they compute.                                        *)
(***************************************************************************)
Raises(v) == v.t \in {"str", "null"}

PosInf == [t |-> "inf", sign |-> 1]
NegInf == [t |-> "inf", sign |-> -1]

IsInf(v) == v.t = "inf"

\* a < b on float cells; every comparison with NaN is false.
Less(a, b) ==
    IF IsNum(a) /\ IsNum(b) THEN a.n < b.n
    ELSE IF IsInf(a) /\ IsInf(b) THEN a.sign < b.sign
    ELSE IF IsInf(a) /\ IsNum(b) THEN a.sign < 0
    ELSE IF IsNum(a) /\ IsInf(b) THEN b.sign > 0
    ELSE FALSE

Neg(a) ==
    IF IsNum(a) THEN Num(-a.n)
    ELSE IF IsInf(a) THEN [t |-> "inf", sign |-> -a.sign]
    ELSE NaN

Add(a, b) ==
    IF IsNum(a) /\ IsNum(b) THEN Num(a.n + b.n)
    ELSE IF IsInf(a) /\ IsInf(b) THEN (IF a.sign = b.sign THEN a ELSE NaN)
    ELSE IF IsInf(a) /\ IsNum(b) THEN a
    ELSE IF IsNum(a) /\ IsInf(b) THEN b
    ELSE NaN

Sub(a, b) == Add(a, Neg(b))

\* floor(x * y / Scale) without leaving 32 bits.
MulUnits(x, y) ==
    LET xh == x \div Scale
        xl == x % Scale
        yh == y \div Scale
        yl == y % Scale
    IN  xh * yh * Scale + xh * yl + xl * yh + (xl * yl) \div Scale

SignOf(v) == IF IsInf(v) THEN v.sign ELSE IF v.n > 0 THEN 1 ELSE IF v.n < 0 THEN -1 ELSE 0

Mul(a, b) ==
    IF IsNum(a) /\ IsNum(b) THEN Num(MulUnits(a.n, b.n))
    ELSE IF (IsNum(a) \/ IsInf(a)) /\ (IsNum(b) \/ IsInf(b))
         THEN (IF SignOf(a) * SignOf(b) = 0 THEN NaN
               ELSE [t |-> "inf", sign |-> SignOf(a) * SignOf(b)])
         ELSE NaN

\* floor(x * Scale / y) for y > 0 by long division, four decimal digits.
DivUnits(x, y) ==
    LET q0 == x \div y
        r0 == x % y
        d1 == (r0 * 10) \div y
        r1 == (r0 * 10) % y
        d2 == (r1 * 10) \div y
        r2 == (r1 * 10) % y
        d3 == (r2 * 10) \div y
        r3 == (r2 * 10) % y
        d4 == (r3 * 10) \div y
    IN  q0 * Scale + d1 * 1000 + d2 * 100 + d3 * 10 + d4

\* pandas / numpy true division of two float cells: x/0 is +-inf, 0/0 is NaN.
Div(a, b) ==
    IF IsInf(a) /\ IsNum(b) THEN (IF b.n < 0 THEN Neg(a) ELSE a)
    ELSE IF IsNum(a) /\ IsInf(b) THEN Num(0)
    ELSE IF ~(IsNum(a) /\ IsNum(b)) THEN NaN
    ELSE IF b.n = 0
         THEN (IF a.n = 0 THEN NaN ELSE IF a.n > 0 THEN PosInf ELSE NegInf)
         ELSE IF b.n > 0 THEN Num(DivUnits(a.n, b.n))
              ELSE Num(DivUnits(-a.n, -b.n))

\* Series.fillna(d): NaN and None cells become d.
fillna(v, d) == IF v.t \in {"nan", "null"} THEN d ELSE v

\* round(x, 2): to a multiple of 0.01, ties to the even hundredth.
RoundUnits2(x) ==
    LET q == x \div 100
        r == x % 100
    IN  IF r < 50 THEN q * 100
        ELSE IF r > 50 THEN (q + 1) * 100
        ELSE IF q % 2 = 0 THEN q * 100 ELSE (q + 1) * 100

round2(v) == IF IsNum(v) THEN Num(RoundUnits2(v.n)) ELSE v

\* Python's max(a, b): b only when b > a, so a NaN second operand loses.
pymax(a, b) == IF Less(a, b) THEN b ELSE a

(***************************************************************************)
(* Python's numeric coercions, as predict_fare's validation calls them.    *)
(* A string is numeric when it is one of the numeric texts of the model's  *)
(* inputs; float(None) and int(None) raise TypeError, float("abc") and     *)
(* int("abc") raise ValueError.                                            *)
(***************************************************************************)
NumericText == [s \in {"1800", "73"} |-> IF s = "1800" THEN 1800 * Scale ELSE 73 * Scale]

\* Truncation toward zero, as int(x) does on a float.
TruncUnits(n) == IF n >= 0 THEN (n \div Scale) * Scale ELSE -(((-n) \div Scale) * Scale)

\* float(v): [ok, v]
pyfloat(v) ==
    IF v.t \in {"num", "nan", "inf"} THEN [ok |-> TRUE, v |-> v]
    ELSE IF v.t = "str" /\ v.s \in DOMAIN NumericText
         THEN [ok |-> TRUE, v |-> Num(NumericText[v.s])]
         ELSE [ok |-> FALSE, v |-> NaN]

\* int(v): [ok, v]; int(nan) and int(inf) raise ValueError / OverflowError.
pyint(v) ==
    IF v.t = "num" THEN [ok |-> TRUE, v |-> Num(TruncUnits(v.n))]
    ELSE IF v.t = "str" /\ v.s \in DOMAIN NumericText
         THEN [ok |-> TRUE, v |-> Num(NumericText[v.s])]
         ELSE [ok |-> FALSE, v |-> NaN]

(***************************************************************************)
(* pd.to_datetime on the texts the model's inputs use: the table splits a  *)
(* text into its calendar fields, any other text does not parse.           *)
(***************************************************************************)
TimestampFields ==
    [s \in {"2021-06-15T14:30:00", "2021-06-19T23:10:00"} |->
        IF s = "2021-06-15T14:30:00"
        THEN [year |-> 2021, month |-> 6, day |-> 15, hour |-> 14]
        ELSE [year |-> 2021, month |-> 6, day |-> 19, hour |-> 23]]

\* Days since 1970-01-01 of a civil date.
DaysFromCivil(y, m, d) ==
    LET yy == IF m <= 2 THEN y - 1 ELSE y
        era == yy \div 400
        yoe == yy - era * 400
        mp == IF m > 2 THEN m - 3 ELSE m + 9
        doy == (153 * mp + 2) \div 5 + d - 1
        doe == yoe * 365 + yoe \div 4 - yoe \div 100 + doy
    IN  era * 146097 + doe - 719468

\* Series.dt.dayofweek: Monday is 0.
DayOfWeek(y, m, d) == (DaysFromCivil(y, m, d) + 3) % 7

\* [ok, hour, day_of_week, month]; None parses to NaT, whose fields are NaN; a
\* (small) number is taken as nanoseconds after 1970-01-01T00:00, a Thursday.
to_datetime(v) ==
    IF v.t = "null"
    THEN [ok |-> TRUE, hour |-> NaN, day_of_week |-> NaN, month |-> NaN]
    ELSE IF v.t = "str" /\ v.s \in DOMAIN TimestampFields
    THEN LET f == TimestampFields[v.s]
         IN  [ok |-> TRUE, hour |-> Whole(f.hour),
              day_of_week |-> Whole(DayOfWeek(f.year, f.month, f.day)),
              month |-> Whole(f.month)]
    ELSE IF v.t = "num"
    THEN [ok |-> TRUE, hour |-> Whole(0), day_of_week |-> Whole(3), month |-> Whole(1)]
    ELSE [ok |-> FALSE, hour |-> NaN, day_of_week |-> NaN, month |-> NaN]

VARIABLES
    app,              \* "starting", "serving" or "aborted": the module's initialisation
    model,            \* the module globals of production_app.py / chicago_fare_api.py
    scaler,
    label_encoders,
    model_metadata,
    now,              \* the wall clock datetime.now() reads
    request,          \* the request being answered, None between requests: body is
                      \* the parsed JSON as it arrived, trip_data the same object(s)
                      \* as the handler left them
    response,         \* its response
    work,             \* what the handler of the request did, step by step
    remembered,       \* an earlier request with its response, kept by an observer
    calls             \* the handlers in progress at once, each with its own request
                      \* context and local variables, None where there is none

vars == <<app, model, scaler, label_encoders, model_metadata, now, request,
          response, work, remembered, calls>>

artifact == <<model, scaler, label_encoders, model_metadata>>

(***************************************************************************)
(* engineer_features: one trip record (a function from its keys to cells)  *)
(* to the one-row feature table, a function from column names to cells.    *)
(***************************************************************************)
Flag(b) == Whole(IF b THEN 1 ELSE 0)

Eq(a, b) ==
    \/ IsNum(a) /\ IsNum(b) /\ a.n = b.n
    \/ IsInf(a) /\ IsInf(b) /\ a.sign = b.sign

Leq(a, b) == Less(a, b) \/ Eq(a, b)

\* A faulty bucketing that has lost its evening branch, so that the hours
\* from 20 on fall through to night: the boundary table is checked against it.
categorize_time_without_evening(hour) ==
    IF Leq(Whole(5), hour) /\ Less(hour, Whole(9)) THEN "morning_rush"
    ELSE IF Leq(Whole(9), hour) /\ Less(hour, Whole(16)) THEN "daytime"
    ELSE IF Leq(Whole(16), hour) /\ Less(hour, Whole(20)) THEN "evening_rush"
    ELSE "night"

categorize_time(hour) ==
    IF Leq(Whole(5), hour) /\ Less(hour, Whole(9)) THEN "morning_rush"
    ELSE IF Leq(Whole(9), hour) /\ Less(hour, Whole(16)) THEN "daytime"
    ELSE IF Leq(Whole(16), hour) /\ Less(hour, Whole(20)) THEN "evening_rush"
    ELSE IF Leq(Whole(20), hour) /\ Less(hour, Whole(24)) THEN "evening"
    ELSE "night"

\* A faulty cut with left-closed bins, as pd.cut(..., right=False) makes
\* them: the distance buckets are checked against it.
distance_category_left_closed(x) ==
    IF Leq(Whole(0), x) /\ Less(x, Whole(1)) THEN Str("very_short")
    ELSE IF Leq(Whole(1), x) /\ Less(x, Whole(3)) THEN Str("short")
    ELSE IF Leq(Whole(3), x) /\ Less(x, Whole(7)) THEN Str("medium")
    ELSE IF Leq(Whole(7), x) /\ Less(x, Whole(15)) THEN Str("long")
    ELSE IF Leq(Whole(15), x) /\ Less(x, PosInf) THEN Str("very_long")
    ELSE NaN

\* pd.cut(x, bins=[0, 1, 3, 7, 15, inf], labels=...): right-closed bins.
distance_category(x) ==
    IF Less(Whole(0), x) /\ Leq(x, Whole(1)) THEN Str("very_short")
    ELSE IF Less(Whole(1), x) /\ Leq(x, Whole(3)) THEN Str("short")
    ELSE IF Less(Whole(3), x) /\ Leq(x, Whole(7)) THEN Str("medium")
    ELSE IF Less(Whole(7), x) /\ Leq(x, Whole(15)) THEN Str("long")
    ELSE IF Less(Whole(15), x) /\ Leq(x, PosInf) THEN Str("very_long")
    ELSE NaN

peak_hours == {3, 7, 11, 19}

\* A faulty demand set, the five densest zones of the density map taken by
\* mistake for the high-demand ones: the worked example is checked against it.
high_demand_areas_by_density == {32, 23, 28, 53, 44}

high_demand_areas == {73, 53, 23, 32, 69}

area_density_map ==
    [a \in {73, 53, 23, 32, 69, 5, 41, 28, 44, 76} |->
        CASE a = 73 -> 156 [] a = 53 -> 89 [] a = 23 -> 134 [] a = 32 -> 201
          [] a = 69 -> 78 [] a = 5 -> 45 [] a = 41 -> 67 [] a = 28 -> 123
          [] a = 44 -> 89 [] a = 76 -> 56]

\* Series.isin(list of ints) on a float cell.
isin(v, S) == IsNum(v) /\ v.n % Scale = 0 /\ (v.n \div Scale) \in S

\* Series.map(area_density_map).fillna(50)
density(area) ==
    IF IsNum(area) /\ area.n % Scale = 0 /\ (area.n \div Scale) \in DOMAIN area_density_map
    THEN Whole(area_density_map[area.n \div Scale])
    ELSE Whole(50)

\* Series.fillna(0).astype(int): [ok, v]
fillna0_astype_int(v) == pyint(fillna(v, Whole(0)))

\* str(value) of a cell that label encoding sees (Series.astype(str)).
astype_str(v) == IF v.t = "str" THEN v.s ELSE IF v.t = "nan" THEN "nan" ELSE "other"

\* A faulty encoder that gives a value it has not seen the code after the
\* last one of its vocabulary: the encoding policy is checked against it.
SimpleLabelEncoder_transform_unseen_last(categories, v) ==
    IF \E i \in DOMAIN categories : categories[i] = (IF v.t = "str" THEN v.s ELSE "other")
    THEN [t |-> "num",
          n |-> Scale * ((CHOOSE i \in DOMAIN categories :
                             categories[i] = (IF v.t = "str" THEN v.s ELSE "other")) - 1)]
    ELSE [t |-> "num", n |-> Scale * Len(categories)]

\* SimpleLabelEncoder.transform on one value: mapping.get(str(val), 0).
Position(seq, x) ==
    IF \E i \in DOMAIN seq : seq[i] = x
    THEN (CHOOSE i \in DOMAIN seq : seq[i] = x /\ \A j \in 1..(i - 1) : seq[j] # x) - 1
    ELSE 0

SimpleLabelEncoder_transform(categories, v) == Whole(Position(categories, astype_str(v)))

categorical_columns == <<"time_category", "distance_category", "payment_type", "company">>

EngineeredColumns ==
    <<"hour", "day_of_week", "month", "is_weekend", "time_category",
      "pickup_area", "dropoff_area", "same_area",
      "pickup_latitude", "pickup_longitude", "dropoff_latitude", "dropoff_longitude",
      "trip_duration_minutes", "speed_mph", "distance_category",
      "is_peak_hour", "is_high_demand_pickup", "is_high_demand_dropoff",
      "is_premium_distance", "is_premium_duration",
      "base_fare_estimate", "distance_fare_estimate", "time_fare_estimate",
      "estimated_base_total",
      "distance_time_interaction", "hour_distance_interaction",
      "weekend_distance_interaction", "peak_distance_interaction",
      "efficiency_score", "is_efficient_trip",
      "pickup_area_density", "dropoff_area_density">>

Range(seq) == {seq[i] : i \in DOMAIN seq}

\* A faulty lookup that yields None for an absent key, as dict.get(key)
\* does: the optional-field property is checked against it.
GetOrNone(d, k, default) == IF k \in DOMAIN d THEN d[k] ELSE [t |-> "null"]

\* dict.get(key, default)
Get(d, k, default) == IF k \in DOMAIN d THEN d[k] ELSE default

\* The keys a request record may carry, in the order the model writes them.
FieldOrder ==
    <<"trip_miles", "trip_seconds", "pickup_community_area", "dropoff_community_area",
      "trip_start_timestamp", "payment_type", "company",
      "pickup_latitude", "pickup_longitude", "dropoff_latitude", "dropoff_longitude">>

\* The value of every engineered column, given the record and the parsed parts.
EngineeredCell(trip_data, c) ==
    LET ts == to_datetime(trip_data["trip_start_timestamp"])
        hour == ts.hour
        is_weekend == Flag(Leq(Whole(5), ts.day_of_week))
        pickup_area == fillna0_astype_int(trip_data["pickup_community_area"]).v
        dropoff_area == fillna0_astype_int(trip_data["dropoff_community_area"]).v
        trip_miles == trip_data["trip_miles"]
        minutes == Div(trip_data["trip_seconds"], Whole(60))
        is_peak_hour == Flag(isin(hour, peak_hours))
        distance_fare == Mul(trip_miles, Num(22500))
        time_fare == Mul(minutes, Num(3500))
        efficiency == Div(trip_miles, Add(minutes, Whole(1)))
    IN  CASE c = "hour" -> hour
          [] c = "day_of_week" -> ts.day_of_week
          [] c = "month" -> ts.month
          [] c = "is_weekend" -> is_weekend
          [] c = "time_category" -> Str(categorize_time(hour))
          [] c = "pickup_area" -> pickup_area
          [] c = "dropoff_area" -> dropoff_area
          [] c = "same_area" -> Flag(Eq(pickup_area, dropoff_area))
          [] c = "pickup_latitude" -> Get(trip_data, c, Num(418781))
          [] c = "pickup_longitude" -> Get(trip_data, c, Num(-876298))
          [] c = "dropoff_latitude" -> Get(trip_data, c, Num(418781))
          [] c = "dropoff_longitude" -> Get(trip_data, c, Num(-876298))
          [] c = "trip_duration_minutes" -> minutes
          [] c = "speed_mph" -> fillna(Div(trip_miles, Div(minutes, Whole(60))), Whole(20))
          [] c = "distance_category" -> distance_category(trip_miles)
          [] c = "is_peak_hour" -> is_peak_hour
          [] c = "is_high_demand_pickup" -> Flag(isin(pickup_area, high_demand_areas))
          [] c = "is_high_demand_dropoff" -> Flag(isin(dropoff_area, high_demand_areas))
          [] c = "is_premium_distance" -> Flag(Less(Whole(10), trip_miles))
          [] c = "is_premium_duration" -> Flag(Less(Whole(45), minutes))
          [] c = "base_fare_estimate" -> Num(32500)
          [] c = "distance_fare_estimate" -> distance_fare
          [] c = "time_fare_estimate" -> time_fare
          [] c = "estimated_base_total" -> Add(Add(Num(32500), distance_fare), time_fare)
          [] c = "distance_time_interaction" -> Mul(trip_miles, minutes)
          [] c = "hour_distance_interaction" -> Mul(hour, trip_miles)
          [] c = "weekend_distance_interaction" -> Mul(is_weekend, trip_miles)
          [] c = "peak_distance_interaction" -> Mul(is_peak_hour, trip_miles)
          [] c = "efficiency_score" -> efficiency
          [] c = "is_efficient_trip" -> Flag(Less(Num(1000), efficiency))
          [] c = "pickup_area_density" -> density(pickup_area)
          [] c = "dropoff_area_density" -> density(dropoff_area)

\* The label-encoding loop: the cell of column col + "_encoded".
EncodedCell(trip_data, col) ==
    LET v == IF col = "time_category" THEN EngineeredCell(trip_data, "time_category")
             ELSE IF col = "distance_category"
                  THEN EngineeredCell(trip_data, "distance_category")
                  ELSE trip_data[col]
    IN  IF col \in DOMAIN label_encoders
        THEN SimpleLabelEncoder_transform(label_encoders[col], v)
        ELSE Whole(0)

Encoded(col) == [time_category |-> "time_category_encoded",
                 distance_category |-> "distance_category_encoded",
                 payment_type |-> "payment_type_encoded",
                 company |-> "company_encoded"][col]

\* What makes a statement of engineer_features raise.
EngineeringRaises(trip_data) ==
    \/ "trip_start_timestamp" \notin DOMAIN trip_data
    \/ ~to_datetime(trip_data["trip_start_timestamp"]).ok
    \/ "pickup_community_area" \notin DOMAIN trip_data
    \/ ~fillna0_astype_int(trip_data["pickup_community_area"]).ok
    \/ "dropoff_community_area" \notin DOMAIN trip_data
    \/ ~fillna0_astype_int(trip_data["dropoff_community_area"]).ok
    \/ "trip_seconds" \notin DOMAIN trip_data
    \/ Raises(trip_data["trip_seconds"])
    \/ "trip_miles" \notin DOMAIN trip_data
    \/ Raises(trip_data["trip_miles"])

\* [ok, columns, cell]: the DataFrame's column order and its one row.
engineer_features(trip_data) ==
    IF EngineeringRaises(trip_data)
    THEN [ok |-> FALSE, error |-> "Feature engineering failed"]
    ELSE LET Given(c) == c \in DOMAIN trip_data
             New(c) == c \notin DOMAIN trip_data
             Cat(col) == col \in {"time_category", "distance_category"} \/ Given(col)
             encoded == SelectSeq(categorical_columns, Cat)
             columns == SelectSeq(FieldOrder, Given) \o SelectSeq(EngineeredColumns, New)
                        \o [i \in DOMAIN encoded |-> Encoded(encoded[i])]
         IN  [ok |-> TRUE,
              columns |-> columns,
              cell |-> [c \in Range(columns) |->
                          IF c \in Range(EngineeredColumns) THEN EngineeredCell(trip_data, c)
                          ELSE IF \E i \in DOMAIN encoded : Encoded(encoded[i]) = c
                          THEN EncodedCell(trip_data,
                                   CHOOSE col \in Range(encoded) : Encoded(col) = c)
                          ELSE trip_data[c]]]

(***************************************************************************)
(* engineer_features of chicago_fare_api.py, the development application:  *)
(* its own copy of the materializer, with no try around it, so that an     *)
(* exception leaves it as it was raised.                                   *)
(***************************************************************************)
\* A faulty bucketing whose bins are closed at the upper end: the bucket
\* boundaries are checked against it.
dev_categorize_time_upper_inclusive(hour) ==
    IF Less(Whole(5), hour) /\ Leq(hour, Whole(9)) THEN "morning_rush"
    ELSE IF Less(Whole(9), hour) /\ Leq(hour, Whole(16)) THEN "daytime"
    ELSE IF Less(Whole(16), hour) /\ Leq(hour, Whole(20)) THEN "evening_rush"
    ELSE IF Less(Whole(20), hour) /\ Leq(hour, Whole(24)) THEN "evening"
    ELSE "night"

dev_categorize_time(hour) ==
    IF Leq(Whole(5), hour) /\ Less(hour, Whole(9)) THEN "morning_rush"
    ELSE IF Leq(Whole(9), hour) /\ Less(hour, Whole(16)) THEN "daytime"
    ELSE IF Leq(Whole(16), hour) /\ Less(hour, Whole(20)) THEN "evening_rush"
    ELSE IF Leq(Whole(20), hour) /\ Less(hour, Whole(24)) THEN "evening"
    ELSE "night"

\* The value of every column the development materializer adds.
dev_EngineeredCell(trip_data, c) ==
    LET ts == to_datetime(trip_data["trip_start_timestamp"])
        hour == ts.hour
        is_weekend == Flag(Leq(Whole(5), ts.day_of_week))
        pickup_area == fillna0_astype_int(trip_data["pickup_community_area"]).v
        dropoff_area == fillna0_astype_int(trip_data["dropoff_community_area"]).v
        trip_miles == trip_data["trip_miles"]
        minutes == Div(trip_data["trip_seconds"], Whole(60))
        is_peak_hour == Flag(isin(hour, peak_hours))
        distance_fare == Mul(trip_miles, Num(22500))
        time_fare == Mul(minutes, Num(3500))
        efficiency == Div(trip_miles, Add(minutes, Whole(1)))
    IN  CASE c = "hour" -> hour
          [] c = "day_of_week" -> ts.day_of_week
          [] c = "month" -> ts.month
          [] c = "is_weekend" -> is_weekend
          [] c = "time_category" -> Str(dev_categorize_time(hour))
          [] c = "pickup_area" -> pickup_area
          [] c = "dropoff_area" -> dropoff_area
          [] c = "same_area" -> Flag(Eq(pickup_area, dropoff_area))
          [] c = "pickup_latitude" -> Get(trip_data, c, Num(418781))
          [] c = "pickup_longitude" -> Get(trip_data, c, Num(-876298))
          [] c = "dropoff_latitude" -> Get(trip_data, c, Num(418781))
          [] c = "dropoff_longitude" -> Get(trip_data, c, Num(-876298))
          [] c = "trip_duration_minutes" -> minutes
          [] c = "speed_mph" -> fillna(Div(trip_miles, Div(minutes, Whole(60))), Whole(20))
          [] c = "distance_category" -> distance_category(trip_miles)
          [] c = "is_peak_hour" -> is_peak_hour
          [] c = "is_high_demand_pickup" -> Flag(isin(pickup_area, high_demand_areas))
          [] c = "is_high_demand_dropoff" -> Flag(isin(dropoff_area, high_demand_areas))
          [] c = "is_premium_distance" -> Flag(Less(Whole(10), trip_miles))
          [] c = "is_premium_duration" -> Flag(Less(Whole(45), minutes))
          [] c = "base_fare_estimate" -> Num(32500)
          [] c = "distance_fare_estimate" -> distance_fare
          [] c = "time_fare_estimate" -> time_fare
          [] c = "estimated_base_total" -> Add(Add(Num(32500), distance_fare), time_fare)
          [] c = "distance_time_interaction" -> Mul(trip_miles, minutes)
          [] c = "hour_distance_interaction" -> Mul(hour, trip_miles)
          [] c = "weekend_distance_interaction" -> Mul(is_weekend, trip_miles)
          [] c = "peak_distance_interaction" -> Mul(is_peak_hour, trip_miles)
          [] c = "efficiency_score" -> efficiency
          [] c = "is_efficient_trip" -> Flag(Less(Num(1000), efficiency))
          [] c = "pickup_area_density" -> density(pickup_area)
          [] c = "dropoff_area_density" -> density(dropoff_area)

\* The development label-encoding loop: the cell of column col + "_encoded".
dev_EncodedCell(trip_data, col) ==
    LET v == IF col = "time_category" THEN dev_EngineeredCell(trip_data, "time_category")
             ELSE IF col = "distance_category"
                  THEN dev_EngineeredCell(trip_data, "distance_category")
                  ELSE trip_data[col]
    IN  IF col \in DOMAIN label_encoders
        THEN SimpleLabelEncoder_transform(label_encoders[col], v)
        ELSE Whole(0)

\* What makes a statement of the development materializer raise.
dev_EngineeringRaises(trip_data) ==
    \/ "trip_start_timestamp" \notin DOMAIN trip_data
    \/ ~to_datetime(trip_data["trip_start_timestamp"]).ok
    \/ "pickup_community_area" \notin DOMAIN trip_data
    \/ ~fillna0_astype_int(trip_data["pickup_community_area"]).ok
    \/ "dropoff_community_area" \notin DOMAIN trip_data
    \/ ~fillna0_astype_int(trip_data["dropoff_community_area"]).ok
    \/ "trip_seconds" \notin DOMAIN trip_data
    \/ Raises(trip_data["trip_seconds"])
    \/ "trip_miles" \notin DOMAIN trip_data
    \/ Raises(trip_data["trip_miles"])

\* [ok, columns, cell], or the exception of the statement that raised.
dev_engineer_features(trip_data) ==
    IF dev_EngineeringRaises(trip_data)
    THEN [ok |-> FALSE, error |-> "exception of the failing statement"]
    ELSE LET Given(c) == c \in DOMAIN trip_data
             New(c) == c \notin DOMAIN trip_data
             Cat(col) == col \in {"time_category", "distance_category"} \/ Given(col)
             encoded == SelectSeq(categorical_columns, Cat)
             columns == SelectSeq(FieldOrder, Given) \o SelectSeq(EngineeredColumns, New)
                        \o [i \in DOMAIN encoded |-> Encoded(encoded[i])]
         IN  [ok |-> TRUE,
              columns |-> columns,
              cell |-> [c \in Range(columns) |->
                          IF c \in Range(EngineeredColumns) THEN dev_EngineeredCell(trip_data, c)
                          ELSE IF \E i \in DOMAIN encoded : Encoded(encoded[i]) = c
                          THEN dev_EncodedCell(trip_data,
                                   CHOOSE col \in Range(encoded) : Encoded(col) = c)
                          ELSE trip_data[c]]]

(***************************************************************************)
(* The artifact classes of model_classes.py.  A matrix is a sequence of    *)
(* rows, a row a sequence of cells.                                        *)
(***************************************************************************)
SimpleLinearModel ==
    [base_fare |-> 32500,
     coefficients |-> <<22500, 58, 15000, -7500, 100, 100, 500, -1000, 200>>,
     minimum |-> 25000]

SimpleScaler ==
    [mean_ |-> <<52000, 18000000, 3000, 3000, 350000, 350000, 120000, 30000, 60000>>,
     scale_ |-> <<30000, 6000000, 5000, 5000, 200000, 200000, 60000, 20000, 30000>>]

Min(a, b) == IF a < b THEN a ELSE b

RECURSIVE FareSum(_, _, _, _)
\* fare after the loop has added the terms i..k of the row.
FareSum(m, row, i, k) ==
    IF i > k THEN Num(m.base_fare)
    ELSE Add(FareSum(m, row, i, k - 1), Mul(row[k], Num(m.coefficients[k])))

\* SimpleLinearModel.predict: [ok, predictions]; a str or None cell raises.
SimpleLinearModel_predict(m, X) ==
    LET used(row) == 1..Min(Len(row), Len(m.coefficients))
    IN  IF \E r \in DOMAIN X : \E i \in used(X[r]) : Raises(X[r][i])
        THEN [ok |-> FALSE, predictions |-> <<>>]
        ELSE [ok |-> TRUE,
              predictions |->
                  [r \in DOMAIN X |->
                      pymax(FareSum(m, X[r], 1, Min(Len(X[r]), Len(m.coefficients))),
                            Num(m.minimum))]]

\* SimpleScaler.transform: [ok, X]
SimpleScaler_transform(sc, X) ==
    IF \E r \in DOMAIN X : \E i \in 1..Min(Len(X[r]), Len(sc.mean_)) : Raises(X[r][i])
    THEN [ok |-> FALSE, X |-> <<>>]
    ELSE [ok |-> TRUE,
          X |-> [r \in DOMAIN X |->
                   [i \in DOMAIN X[r] |->
                       IF i <= Len(sc.mean_)
                       THEN Div(Sub(X[r][i], Num(sc.mean_[i])), Num(sc.scale_[i]))
                       ELSE X[r][i]]]]

(***************************************************************************)
(* Schema reconciliation: the loop that fills feature_df, an initially     *)
(* empty DataFrame, one column per name of the artifact's list.            *)
(*   feature_df[col] = series   on a frame without rows gives the frame    *)
(*     the series' one row, and the columns set before become NaN;         *)
(*   feature_df[col] = scalar   on a frame without rows makes an empty     *)
(*     column, on a frame with a row fills the row;                        *)
(*   assigning to a name that is already a column overwrites it in place.  *)
(* A frame is [rows, columns, cell].                                       *)
(***************************************************************************)
EmptyFrame == [rows |-> 0, columns |-> <<>>, cell |-> <<>>]

SetColumn(frame, col, v) ==
    [rows |-> frame.rows,
     columns |-> IF col \in Range(frame.columns) THEN frame.columns
                 ELSE Append(frame.columns, col),
     cell |-> [c \in Range(frame.columns) \cup {col} |->
                 IF c = col THEN v ELSE frame.cell[c]]]

AssignSeries(frame, col, v) ==
    IF frame.rows = 0
    THEN SetColumn([rows |-> 1, columns |-> frame.columns,
                    cell |-> [c \in Range(frame.columns) |-> NaN]], col, v)
    ELSE SetColumn(frame, col, v)

AssignScalar(frame, col, v) ==
    IF frame.rows = 0 THEN SetColumn(frame, col, NaN) ELSE SetColumn(frame, col, v)

\* The names of the model's columns that contain the given word.
LatitudeNames == {"pickup_latitude", "dropoff_latitude", "centroid_latitude"}
LongitudeNames == {"pickup_longitude", "dropoff_longitude", "centroid_longitude"}
DensityNames == {"pickup_area_density", "dropoff_area_density", "zone_density"}

\* The default of predict_fare (production) for a column the table lacks.
PatternDefault(col) ==
    IF col \in LatitudeNames THEN Num(418781)
    ELSE IF col \in LongitudeNames THEN Num(-876298)
    ELSE IF col \in DensityNames THEN Whole(50)
    ELSE Whole(0)

\* The default of batch_predict (production) for a column the table lacks.
ZeroDefault(col) == Whole(0)

\* The default of a handler: by the name of the column, or 0.
DefaultFor(by_name, col) == IF by_name THEN PatternDefault(col) ELSE ZeroDefault(col)

\* One pass of the loop: the frame after the assignment to column col.
ReconcileStep(before, col, df_features, by_name) ==
    IF col \in Range(df_features.columns)
    THEN AssignSeries(before, col, df_features.cell[col])
    ELSE AssignScalar(before, col, DefaultFor(by_name, col))

RECURSIVE ReconcileTo(_, _, _, _)
\* feature_df after the loop has run over the first k names of the list.
ReconcileTo(feature_columns, df_features, by_name, k) ==
    IF k = 0 THEN EmptyFrame
    ELSE Let(ReconcileTo(feature_columns, df_features, by_name, k - 1),
             LAMBDA before : ReconcileStep(before, feature_columns[k], df_features, by_name))

Reconcile(feature_columns, df_features, by_name) ==
    ReconcileTo(feature_columns, df_features, by_name, Len(feature_columns))

\* DataFrame.values: the rows of the frame, cells in column order.
Values(frame) ==
    [r \in 1..frame.rows |-> [i \in DOMAIN frame.columns |-> frame.cell[frame.columns[i]]]]

\* DataFrame.fillna(0)
FrameFillna0(frame) ==
    [frame EXCEPT !.cell = [c \in DOMAIN frame.cell |-> fillna(frame.cell[c], Whole(0))]]

(***************************************************************************)
(* What a handler did, for the properties that speak of its steps: how     *)
(* many records it checked, defaulted (setdefault), materialized           *)
(* (engineer_features), reconciled, scaled and scored, and the column      *)
(* names of each matrix it handed to the scaler or the model.              *)
(***************************************************************************)
NoWork ==
    [checked |-> 0, defaulted |-> 0, engineered |-> 0, reconciled |-> 0,
     scaled |-> 0, scored |-> 0, handed |-> <<>>, vectors |-> <<>>]

MIN_FARE == 50000

BATCH_LIMIT == 100

\* A faulty categorization whose limits belong to the lower label: the
\* category table is checked against it.
get_business_category_inclusive(fare) ==
    IF Leq(fare, Whole(10)) THEN "Budget"
    ELSE IF Leq(fare, Whole(20)) THEN "Standard"
    ELSE IF Leq(fare, Whole(40)) THEN "Premium"
    ELSE "Luxury"

\* get_business_category of predict_fare (production_app.py)
get_business_category(fare) ==
    IF Less(fare, Whole(10)) THEN "Budget"
    ELSE IF Less(fare, Whole(20)) THEN "Standard"
    ELSE IF Less(fare, Whole(40)) THEN "Premium"
    ELSE "Luxury"

\* get_business_category of batch_predict (production_app.py)
batch_get_business_category(fare) ==
    IF Less(fare, Whole(10)) THEN "Budget"
    ELSE IF Less(fare, Whole(20)) THEN "Standard"
    ELSE IF Less(fare, Whole(40)) THEN "Premium"
    ELSE "Luxury"

\* get_business_category of chicago_fare_api.py
dev_get_business_category(fare) ==
    IF Less(fare, Whole(10)) THEN "Budget"
    ELSE IF Less(fare, Whole(20)) THEN "Standard"
    ELSE IF Less(fare, Whole(40)) THEN "Premium"
    ELSE "Luxury"

required_fields ==
    <<"trip_miles", "trip_seconds", "pickup_community_area",
      "dropoff_community_area", "trip_start_timestamp">>

\* dict.setdefault(key, value), as a new record.
setdefault(d, k, v) == [x \in DOMAIN d \cup {k} |-> IF x \in DOMAIN d THEN d[x] ELSE v]

WithDefaults(trip_data) ==
    setdefault(setdefault(trip_data, "payment_type", Str("Credit Card")),
               "company", Str("Chicago Taxi"))

\* A 4xx reply; names are the field names its message carries.
UserError(error, names) ==
    [status |-> 400, kind |-> "error", error |-> error, names |-> names]

\* The reply of the handlers' outermost except clause.
ServerError(message) ==
    [status |-> 500, kind |-> "error", error |-> "Internal server error",
     message |-> message, names |-> <<>>, timestamp |-> now]

model_info ==
    [model_name |-> model_metadata.model_name,
     rmse_percentage |-> model_metadata.performance.test_rmse_pct,
     r2_score |-> model_metadata.performance.test_r2]

\* A faulty lower bound, the estimate less the RMSE with no floor: the floor
\* property is checked against it to show that it tells the two apart.
lower_bound_without_floor(predicted_fare) ==
    Sub(predicted_fare, Num(model_metadata.performance.test_rmse))

\* lower_bound, upper_bound of predict_fare and batch_predict.
lower_bound(predicted_fare) ==
    pymax(Num(MIN_FARE), Sub(predicted_fare, Num(model_metadata.performance.test_rmse)))

upper_bound(predicted_fare) ==
    Add(predicted_fare, Num(model_metadata.performance.test_rmse))

(***************************************************************************)
(* From the reconciled frame to the point estimate: .values, the optional  *)
(* scaling, model.predict(...)[0].  [ok, fare, work]                       *)
(***************************************************************************)
Score(frame, w) ==
    LET use_scaled == model_metadata.performance.use_scaled
        w1 == [w EXCEPT !.scaled = @ + (IF use_scaled THEN 1 ELSE 0),
                        !.handed = Append(@, frame.columns),
                        !.vectors = Append(@, Values(frame) \o <<>>)]
        w2 == [w1 EXCEPT !.scored = @ + 1]
        Predicted(out) ==
            IF ~out.ok THEN [ok |-> FALSE, message |-> "TypeError", work |-> w2]
            ELSE IF out.predictions = <<>>
                 THEN [ok |-> FALSE, message |-> "list index out of range", work |-> w2]
                 ELSE [ok |-> TRUE, fare |-> out.predictions[1], work |-> w2]
        Scaled(scaled) ==
            IF ~scaled.ok THEN [ok |-> FALSE, message |-> "TypeError", work |-> w1]
            ELSE Let(SimpleLinearModel_predict(model, scaled.X), Predicted)
    IN  Let(Values(frame) \o <<>>,
            LAMBDA X_values :
                Let(IF use_scaled THEN SimpleScaler_transform(scaler, X_values)
                    ELSE [ok |-> TRUE, X |-> X_values],
                    Scaled))

(***************************************************************************)
(* POST /predict of production_app.py: [response, work]                    *)
(***************************************************************************)
missing_fields(trip_data) ==
    LET Absent(f) == f \notin DOMAIN trip_data IN SelectSeq(required_fields, Absent)

\* The type/range validation: <<>> when the record passes, else the reply.
Validate(trip_data) ==
    LET trip_miles == pyfloat(trip_data["trip_miles"])
        trip_seconds == pyint(trip_data["trip_seconds"])
        pickup_area == pyint(trip_data["pickup_community_area"])
        dropoff_area == pyint(trip_data["dropoff_community_area"])
    IN  IF ~(trip_miles.ok /\ trip_seconds.ok /\ pickup_area.ok /\ dropoff_area.ok)
        THEN <<UserError("Invalid data types", <<>>)>>
        ELSE IF Leq(trip_miles.v, Whole(0)) \/ Less(Whole(1000), trip_miles.v)
        THEN <<UserError("trip_miles must be between 0 and 1000", <<"trip_miles">>)>>
        ELSE IF Leq(trip_seconds.v, Whole(0)) \/ Less(Whole(86400), trip_seconds.v)
        THEN <<UserError("trip_seconds must be between 0 and 86400", <<"trip_seconds">>)>>
        ELSE IF Less(pickup_area.v, Whole(0)) \/ Less(Whole(77), pickup_area.v)
        THEN <<UserError("pickup_community_area must be between 0 and 77",
                         <<"pickup_community_area">>)>>
        ELSE IF Less(dropoff_area.v, Whole(0)) \/ Less(Whole(77), dropoff_area.v)
        THEN <<UserError("dropoff_community_area must be between 0 and 77",
                         <<"dropoff_community_area">>)>>
        ELSE <<>>

\* A faulty success payload whose estimate drifts with the wall clock: the
\* repeatability property is checked against it.
PredictionDrifting(predicted_fare) ==
    [status |-> 200, kind |-> "prediction",
     predicted_fare |-> round2(Add(predicted_fare, Whole(now))),
     confidence_interval |-> [lower |-> round2(lower_bound(predicted_fare)),
                              upper |-> round2(upper_bound(predicted_fare))],
     model_info |-> model_info,
     business_category |-> get_business_category(predicted_fare),
     timestamp |-> now]

\* The success payload of /predict.
Prediction(predicted_fare) ==
    [status |-> 200, kind |-> "prediction",
     predicted_fare |-> round2(predicted_fare),
     confidence_interval |-> [lower |-> round2(lower_bound(predicted_fare)),
                              upper |-> round2(upper_bound(predicted_fare))],
     model_info |-> model_info,
     business_category |-> get_business_category(predicted_fare),
     timestamp |-> now]

\* The part of predict_fare after the validation, on the defaulted record.
PredictValidated(trip_data, by_name, w) ==
    LET w1 == [w EXCEPT !.engineered = @ + 1]
        w2 == [w1 EXCEPT !.reconciled = @ + 1]
        Reconciled(feature_df) == Score(feature_df, w2)
        Engineered(df_features) ==
            IF ~df_features.ok
            THEN [ok |-> FALSE, message |-> df_features.error, work |-> w1]
            ELSE Let(Reconcile(model_metadata.feature_columns, df_features, by_name),
                     Reconciled)
    IN  Let(engineer_features(trip_data), Engineered)

predict_fare(trip_data) ==
    LET w1 == [NoWork EXCEPT !.checked = 1]
        w2 == [w1 EXCEPT !.defaulted = 1]
        Defaulted(defaulted) ==
            LET Done(out) ==
                    IF ~out.ok
                    THEN [response |-> ServerError(out.message), work |-> out.work,
                          trip_data |-> defaulted]
                    ELSE [response |-> Prediction(out.fare), work |-> out.work,
                          trip_data |-> defaulted]
            IN  Let(PredictValidated(defaulted, TRUE, w2), Done)
        Checked(invalid) ==
            IF invalid # <<>>
            THEN [response |-> invalid[1], work |-> w1, trip_data |-> trip_data]
            ELSE Let(WithDefaults(trip_data), Defaulted)
    IN  IF DOMAIN trip_data = {}
        THEN [response |-> UserError("Empty request body", <<>>), work |-> NoWork,
              trip_data |-> trip_data]
        ELSE IF missing_fields(trip_data) # <<>>
        THEN [response |-> UserError("Missing required fields", missing_fields(trip_data)),
              work |-> w1, trip_data |-> trip_data]
        ELSE Let(Validate(trip_data), Checked)

(***************************************************************************)
(* POST /batch_predict of production_app.py                                *)
(***************************************************************************)
\* One pass of the loop body on trip number i (from 0): [entry, work], the
\* work counted from nothing.
BatchItem(trip, i) ==
    LET Done(out) ==
            IF ~out.ok
            THEN [entry |-> [trip_index |-> i, kind |-> "error", error |-> out.message],
                  work |-> out.work, trip |-> WithDefaults(trip)]
            ELSE [entry |-> [trip_index |-> i, kind |-> "prediction",
                             predicted_fare |-> round2(out.fare),
                             confidence_interval |->
                                 [lower |-> round2(lower_bound(out.fare)),
                                  upper |-> round2(upper_bound(out.fare))],
                             business_category |-> batch_get_business_category(out.fare)],
                  work |-> out.work, trip |-> WithDefaults(trip)]
        Defaulted(defaulted) ==
            Let(PredictValidated(defaulted, FALSE, [NoWork EXCEPT !.defaulted = 1]),
                Done)
    IN  Let(WithDefaults(trip), Defaulted)

\* A faulty loop that stops at the first failing trip instead of recording an
\* item-scoped error and going on: the isolation property is checked against it.
BatchLoopStoppingAtFailure(trips_data) ==
    LET Cut(pass) ==
            LET failures == {k \in DOMAIN pass : pass[k].entry.kind = "error"}
                last == IF failures = {} THEN Len(pass)
                        ELSE CHOOSE k \in failures : \A j \in failures : k <= j
            IN  [predictions |-> [k \in 1..last |-> pass[k].entry],
                 work |-> [NoWork EXCEPT !.defaulted = last, !.engineered = last],
                 trips_data |-> [k \in DOMAIN pass |->
                                    IF k <= last THEN pass[k].trip ELSE trips_data[k]]]
    IN  Let([k \in DOMAIN trips_data |-> BatchItem(trips_data[k], k - 1)] \o <<>>, Cut)

\* The for loop over enumerate(trips_data).  Its passes share nothing but the
\* list they append to, so the loop is the pass applied at every index, and
\* its work the sum of the passes' work (each counter of a pass is 0 or 1).
BatchLoop(trips_data) ==
    LET Summed(pass) ==
            LET Count(Did(_)) == Cardinality({k \in DOMAIN pass : Did(pass[k].work)})
                Defaulted(w) == w.defaulted = 1
                Engineered(w) == w.engineered = 1
                Reconciled(w) == w.reconciled = 1
                Scaled(w) == w.scaled = 1
                Scored(w) == w.scored = 1
                Handed(k) == pass[k].work.handed # <<>>
                reached == SelectSeq([k \in DOMAIN pass |-> k], Handed)
            IN  [predictions |-> [k \in DOMAIN pass |-> pass[k].entry],
                 work |-> [checked |-> 0,
                           defaulted |-> Count(Defaulted),
                           engineered |-> Count(Engineered),
                           reconciled |-> Count(Reconciled),
                           scaled |-> Count(Scaled),
                           scored |-> Count(Scored),
                           handed |-> [j \in DOMAIN reached |->
                                          pass[reached[j]].work.handed[1]],
                           vectors |-> [j \in DOMAIN reached |->
                                           pass[reached[j]].work.vectors[1]]],
                 trips_data |-> [k \in DOMAIN pass |-> pass[k].trip]]
    IN  Let([k \in DOMAIN trips_data |-> BatchItem(trips_data[k], k - 1)] \o <<>>, Summed)

CountKind(predictions, kind) == Cardinality({i \in DOMAIN predictions : predictions[i].kind = kind})

\* The reply after the loop: the entries and their counts.
BatchResponse(done) ==
    [response |->
         [status |-> 200, kind |-> "batch",
          predictions |-> done.predictions,
          count |-> Len(done.predictions),
          successful |-> CountKind(done.predictions, "prediction"),
          failed |-> CountKind(done.predictions, "error"),
          timestamp |-> now],
     work |-> done.work,
     trip_data |-> done.trips_data]

\* A faulty handler that looks at the size of the batch only after the loop
\* has run over it: the size-limit property is checked against it.
batch_predict_limit_after_loop(trips_data) ==
    LET Looped(done) ==
            IF Len(trips_data) > BATCH_LIMIT
            THEN [response |-> UserError("Maximum 100 trips per batch", <<>>),
                  work |-> done.work, trip_data |-> done.trips_data]
            ELSE BatchResponse(done)
    IN  IF trips_data = <<>>
        THEN [response |-> UserError("No trips provided", <<>>), work |-> NoWork,
              trip_data |-> trips_data]
        ELSE Let(BatchLoop(trips_data), Looped)

batch_predict(trips_data) ==
    IF trips_data = <<>>
    THEN [response |-> UserError("No trips provided", <<>>), work |-> NoWork,
          trip_data |-> trips_data]
    ELSE IF Len(trips_data) > BATCH_LIMIT
    THEN [response |-> UserError("Maximum 100 trips per batch", <<>>), work |-> NoWork,
          trip_data |-> trips_data]
    ELSE Let(BatchLoop(trips_data), BatchResponse)

(***************************************************************************)
(* POST /predict of chicago_fare_api.py (the development application)      *)
(***************************************************************************)
\* The success payload of the development /predict.
DevPrediction(predicted_fare) ==
    [status |-> 200, kind |-> "prediction",
     predicted_fare |-> round2(predicted_fare),
     confidence_interval |-> [lower |-> round2(lower_bound(predicted_fare)),
                              upper |-> round2(upper_bound(predicted_fare))],
     model_info |-> model_info,
     business_category |-> dev_get_business_category(predicted_fare),
     timestamp |-> now]

\* The reply of the development handler's except clause: the exception's text.
DevServerError(message) ==
    [status |-> 500, kind |-> "error", error |-> message, names |-> <<>>]

dev_predict_fare(trip_data) ==
    LET w1 == [NoWork EXCEPT !.checked = 1]
        w2 == [w1 EXCEPT !.defaulted = 1]
        w3 == [w2 EXCEPT !.engineered = 1]
        w4 == [w3 EXCEPT !.reconciled = 1]
        feature_columns == model_metadata.feature_columns
        Done(scored) ==
            IF ~scored.ok
            THEN [response |-> DevServerError(scored.message), work |-> scored.work]
            ELSE [response |-> DevPrediction(scored.fare), work |-> scored.work]
        Reconciled(X) ==
            IF Len(X.columns) # Len(feature_columns)
            THEN [response |-> DevServerError("Feature count mismatch"), work |-> w4]
            ELSE IF X.columns # feature_columns
            THEN [response |-> DevServerError("Feature names mismatch"), work |-> w4]
            ELSE Let(Score(X, w4), Done)
        Engineered(df_features) ==
            IF ~df_features.ok
            THEN [response |-> DevServerError(df_features.error), work |-> w3]
            ELSE Let(FrameFillna0(Reconcile(feature_columns, df_features, TRUE)),
                     Reconciled)
        Defaulted(defaulted) ==
            Let(Let(dev_engineer_features(defaulted), Engineered),
                LAMBDA out : [response |-> out.response, work |-> out.work,
                              trip_data |-> defaulted])
    IN  IF missing_fields(trip_data) # <<>>
        THEN [response |-> UserError("Missing required field", <<missing_fields(trip_data)[1]>>),
              work |-> w1, trip_data |-> trip_data]
        ELSE Let(WithDefaults(trip_data), Defaulted)

\* GET /health of production_app.py
health_check ==
    [status |-> 200, kind |-> "health", state |-> "healthy", timestamp |-> now,
     model |-> model_metadata.model_name,
     performance |-> [rmse_percentage |-> model_metadata.performance.test_rmse_pct,
                      r2_score |-> model_metadata.performance.test_r2]]

(***************************************************************************)
(* The inputs: trip records, batches, artifacts.                           *)
(***************************************************************************)
MaxClock == 1

MaxCols == 2

MaxBatch == 3

Restrict(d, S) == [k \in S |-> d[k]]

Put(d, k, v) == [x \in DOMAIN d \cup {k} |-> IF x = k THEN v ELSE d[x]]

\* The record of the services' own tests (test_production_api.py, test_api.py).
BaseTrip ==
    [trip_miles |-> Num(52000),
     trip_seconds |-> Whole(1800),
     pickup_community_area |-> Whole(73),
     dropoff_community_area |-> Whole(53),
     trip_start_timestamp |-> Str("2021-06-15T14:30:00")]

\* The base record without any subset of its fields: the empty record too.
MissingTrips == {Restrict(BaseTrip, S) : S \in SUBSET DOMAIN BaseTrip}

\* Other values of one field: boundaries, out of range, ill-typed.
OtherValues ==
    [trip_miles |-> {Num(0), Num(5000), Whole(1), Num(29980), Whole(1000), Num(10000100),
                     Str("abc"), Null, NaN},
     trip_seconds |-> {Whole(0), Whole(86400), Whole(86401), Num(18007000), Str("1800")},
     pickup_community_area |-> {Whole(-1), Whole(0), Whole(77), Whole(78), Num(779000)},
     dropoff_community_area |-> {Whole(-1), Whole(0), Whole(77), Whole(78)},
     trip_start_timestamp |-> {Str("not-a-date"), Str("2021-06-19T23:10:00")},
     payment_type |-> {Str("Cash"), Str("Bitcoin")},
     company |-> {Str("Flash Cab")},
     pickup_latitude |-> {Num(419000), Null}]

EditedTrips ==
    UNION {{Put(BaseTrip, k, v) : v \in OtherValues[k]} : k \in DOMAIN OtherValues}

\* Several range violations in one record.
BadValue ==
    [trip_miles |-> Num(0), trip_seconds |-> Whole(0),
     pickup_community_area |-> Whole(78), dropoff_community_area |-> Whole(-1)]

ViolatingTrips ==
    {[k \in DOMAIN BaseTrip |-> IF k \in S THEN BadValue[k] ELSE BaseTrip[k]] :
        S \in {T \in SUBSET DOMAIN BadValue : Cardinality(T) >= 2}}

Trips == MissingTrips \cup EditedTrips \cup ViolatingTrips

\* The items of the batches: a good record, one that lacks a required field,
\* one whose distance is out of range.
BatchItems ==
    {BaseTrip,
     Restrict(BaseTrip, DOMAIN BaseTrip \ {"trip_seconds"}),
     Put(BaseTrip, "trip_miles", Num(10000100))}

SeqsUpTo(S, n) == UNION {[1..k -> S] : k \in 0..n}

\* A batch of n trips: bad at the second place, good elsewhere.
LongBatch(n) ==
    [i \in 1..n |-> IF i = 2 THEN Restrict(BaseTrip, DOMAIN BaseTrip \ {"trip_seconds"})
                    ELSE BaseTrip]

Batches == SeqsUpTo(BatchItems, MaxBatch) \cup {LongBatch(BATCH_LIMIT), LongBatch(BATCH_LIMIT + 1)}

\* The feature list the artifact classes are written for (SimpleLinearModel.predict).
TrainedColumns ==
    <<"trip_miles", "trip_seconds", "is_peak_hour", "is_weekend",
      "pickup_community_area", "dropoff_community_area", "hour", "day_of_week", "month">>

\* Names for the short feature lists: a raw column, a materialized column, a
\* column the materializer does not produce.
CoreNames == {"trip_miles", "pickup_latitude", "centroid_latitude"}

FeatureLists == {TrainedColumns} \cup SeqsUpTo(CoreNames, MaxCols)

Vocabularies ==
    [payment_type |-> <<"Credit Card", "Cash", "Unknown">>,
     time_category |-> <<"daytime", "evening", "evening_rush", "morning_rush", "night">>]

Metadata(feature_columns, use_scaled, test_rmse) ==
    [model_name |-> "Linear Regression", model_version |-> "1.0", production_ready |-> TRUE,
     feature_columns |-> feature_columns,
     performance |-> [use_scaled |-> use_scaled, test_rmse |-> test_rmse,
                      test_rmse_pct |-> 153000, test_r2 |-> 9120]]

\* The metadata files the model loads: unscaled with a small RMSE for every
\* list, scaled with a large RMSE for the trained list.
MetadataFiles ==
    {Metadata(l, FALSE, 20000) : l \in FeatureLists}
        \cup {Metadata(TrainedColumns, TRUE, 300000)}

\* The request contexts that can be open at once.
Calls == {"first", "second"}

NoCalls == [c \in Calls |-> None]

(***************************************************************************)
(* The state machine.                                                      *)
(***************************************************************************)
Init ==
    /\ app = "starting"
    /\ model = None
    /\ scaler = None
    /\ label_encoders = None
    /\ model_metadata = None
    /\ now = 0
    /\ request = None
    /\ response = None
    /\ work = NoWork
    /\ remembered = None
    /\ calls = NoCalls

\* A faulty start that serves whatever the load managed to read: the
\* fail-fast property is checked against it.
LoadModelComponentsServingAnyway ==
    /\ app = "starting"
    /\ \E md \in MetadataFiles :
       \E loaded \in 0..4 :
          /\ model' = IF loaded >= 1 THEN SimpleLinearModel ELSE None
          /\ scaler' = IF loaded >= 2 THEN SimpleScaler ELSE None
          /\ label_encoders' = IF loaded >= 3 THEN Vocabularies ELSE None
          /\ model_metadata' = IF loaded >= 4 THEN md ELSE None
          /\ app' = "serving"
    /\ UNCHANGED <<now, request, response, work, remembered, calls>>

\* load_model_components and the module's "if not load_model_components(): raise":
\* the four joblib.load / json.load calls in order, any of which may fail.
LoadModelComponents ==
    /\ app = "starting"
    /\ \E md \in MetadataFiles :
       \E loaded \in 0..4 :
          /\ model' = IF loaded >= 1 THEN SimpleLinearModel ELSE None
          /\ scaler' = IF loaded >= 2 THEN SimpleScaler ELSE None
          /\ label_encoders' = IF loaded >= 3 THEN Vocabularies ELSE None
          /\ model_metadata' = IF loaded >= 4 THEN md ELSE None
          /\ app' = IF loaded = 4 THEN "serving" ELSE "aborted"
    /\ UNCHANGED <<now, request, response, work, remembered, calls>>

Idle == app = "serving" /\ request = None

Tick ==
    /\ Idle
    /\ now < MaxClock
    /\ now' = now + 1
    /\ UNCHANGED <<app, artifact, request, response, work, remembered, calls>>

HealthCheck ==
    /\ Idle
    /\ request' = [endpoint |-> "/health", variant |-> "production"]
    /\ response' = health_check
    /\ work' = NoWork
    /\ UNCHANGED <<app, artifact, now, remembered, calls>>

PredictFareOn(S) ==
    /\ Idle
    /\ \E trip_data \in S :
          /\ \E out \in {predict_fare(trip_data)} :
                /\ request' = [endpoint |-> "/predict", variant |-> "production",
                               body |-> trip_data, trip_data |-> out.trip_data]
                /\ response' = out.response
                /\ work' = out.work
    /\ UNCHANGED <<app, artifact, now, remembered, calls>>

DevPredictFareOn(S) ==
    /\ Idle
    /\ \E trip_data \in S :
          /\ \E out \in {dev_predict_fare(trip_data)} :
                /\ request' = [endpoint |-> "/predict", variant |-> "development",
                               body |-> trip_data, trip_data |-> out.trip_data]
                /\ response' = out.response
                /\ work' = out.work
    /\ UNCHANGED <<app, artifact, now, remembered, calls>>

PredictFare == PredictFareOn(Trips)

DevPredictFare == DevPredictFareOn(Trips)

\* A faulty batch handler that writes to the loaded metadata: the
\* immutability property is checked against it.
BatchPredictWritingMetadata ==
    /\ Idle
    /\ \E trips_data \in Batches :
          /\ \E out \in {batch_predict(trips_data)} :
                /\ request' = [endpoint |-> "/batch_predict", variant |-> "production",
                               body |-> trips_data, trip_data |-> out.trip_data]
                /\ response' = out.response
                /\ work' = out.work
    /\ model_metadata' = [model_metadata EXCEPT !.performance.test_rmse = 0]
    /\ UNCHANGED <<app, model, scaler, label_encoders, now, remembered, calls>>

BatchPredict ==
    /\ Idle
    /\ \E trips_data \in Batches :
          /\ \E out \in {batch_predict(trips_data)} :
                /\ request' = [endpoint |-> "/batch_predict", variant |-> "production",
                               body |-> trips_data, trip_data |-> out.trip_data]
                /\ response' = out.response
                /\ work' = out.work
    /\ UNCHANGED <<app, artifact, now, remembered, calls>>

\* The response is sent and the request context is gone.
Deliver ==
    /\ request # None
    /\ request' = None
    /\ response' = None
    /\ work' = NoWork
    /\ UNCHANGED <<app, artifact, now, remembered, calls>>

Next ==
    \/ LoadModelComponents
    \/ Tick
    \/ HealthCheck
    \/ PredictFare
    \/ DevPredictFare
    \/ BatchPredict
    \/ Deliver

Spec == Init /\ [][Next]_vars

(***************************************************************************)
(* Repeated calls: the same machine with a record of one earlier call of   *)
(* /predict (its request and its reply), kept when the reply is sent.      *)
(***************************************************************************)
\* A complete record, a record with optional fields, one the validation
\* rejects, one that lacks a field.
ProbeTrips ==
    {BaseTrip,
     Put(BaseTrip, "payment_type", Str("Cash")),
     Put(BaseTrip, "trip_miles", Num(0)),
     Restrict(BaseTrip, DOMAIN BaseTrip \ {"trip_seconds"})}

PredictFareAgain == PredictFareOn(ProbeTrips)

DevPredictFareAgain == DevPredictFareOn(ProbeTrips)

\* The response is sent; the call is the one remembered from now on.
DeliverRemembered ==
    /\ request # None
    /\ request.endpoint = "/predict"
    /\ remembered' = [request |-> request, response |-> response]
    /\ request' = None
    /\ response' = None
    /\ work' = NoWork
    /\ UNCHANGED <<app, artifact, now, calls>>

NextRepeat ==
    \/ LoadModelComponents
    \/ Tick
    \/ HealthCheck
    \/ PredictFareAgain
    \/ DevPredictFareAgain
    \/ Deliver
    \/ DeliverRemembered

SpecRepeat == Init /\ [][NextRepeat]_vars

(***************************************************************************)
(* Records with every choice of optional fields.                           *)
(***************************************************************************)
\* The optional fields with the value the code puts in place of each.
OptionalDefaults ==
    [payment_type |-> Str("Credit Card"),
     company |-> Str("Chicago Taxi"),
     pickup_latitude |-> Num(418781),
     pickup_longitude |-> Num(-876298),
     dropoff_latitude |-> Num(418781),
     dropoff_longitude |-> Num(-876298)]

\* Values a caller gives for them.
OptionalGiven ==
    [payment_type |-> Str("Cash"),
     company |-> Str("Flash Cab"),
     pickup_latitude |-> Num(419000),
     pickup_longitude |-> Num(-877000),
     dropoff_latitude |-> Num(419500),
     dropoff_longitude |-> Num(-876500)]

\* A valid record at the limits of the distance and zone ranges.
EdgeTrip ==
    [trip_miles |-> Whole(1000),
     trip_seconds |-> Whole(1800),
     pickup_community_area |-> Whole(0),
     dropoff_community_area |-> Whole(77),
     trip_start_timestamp |-> Str("2021-06-19T23:10:00")]

OptionalTrips ==
    {[k \in DOMAIN base \cup S |-> IF k \in S THEN OptionalGiven[k] ELSE base[k]] :
        base \in {BaseTrip, EdgeTrip}, S \in SUBSET DOMAIN OptionalDefaults}

PredictFareOptional == PredictFareOn(OptionalTrips)

DevPredictFareOptional == DevPredictFareOn(OptionalTrips)

NextOptional ==
    \/ LoadModelComponents
    \/ PredictFareOptional
    \/ DevPredictFareOptional
    \/ Deliver

SpecOptional == Init /\ [][NextOptional]_vars

(***************************************************************************)
(* The functions on their own: the categorization of a point estimate by   *)
(* each of its three definitions, and the categorical encoding of the      *)
(* materializer under each set of vocabularies the artifact may ship.      *)
(***************************************************************************)
MaxFareCents == 4100

\* Point estimates: every cent up to the bound, values a hair off the first
\* limit, a negative one, a large one, and the non-finite floats.
Fares ==
    {Num(c * 100) : c \in 0..MaxFareCents}
        \cup {Num(99999), Num(100001), Whole(-1), Whole(1000), NaN, PosInf, NegInf}

AllVocabularies ==
    [payment_type |-> <<"Credit Card", "Cash", "Unknown">>,
     time_category |-> <<"daytime", "evening", "evening_rush", "morning_rush", "night">>,
     distance_category |-> <<"long", "medium", "short", "very_long", "very_short">>,
     company |-> <<"Chicago Taxi", "Flash Cab">>]

VocabularySets ==
    {Restrict(AllVocabularies, S) :
        S \in {{}, {"payment_type", "time_category"}, DOMAIN AllVocabularies}}

\* Records that differ in what the encoding sees.
EncodingTrips ==
    {[k \in DOMAIN BaseTrip \cup S |->
         IF k = "payment_type" THEN pay
         ELSE IF k = "company" THEN Str("Yellow Cab")
         ELSE IF k = "trip_miles" THEN miles
         ELSE IF k = "trip_start_timestamp" THEN ts
         ELSE BaseTrip[k]] :
        S \in SUBSET {"payment_type", "company"},
        pay \in {Str("Credit Card"), Str("Cash"), Str("Bitcoin"), Null, Whole(7)},
        miles \in {Num(52000), Whole(2), Whole(20)},
        ts \in {Str("2021-06-15T14:30:00"), Str("2021-06-19T23:10:00")}}

InitFunctions ==
    /\ app = "serving"
    /\ model = SimpleLinearModel
    /\ scaler = SimpleScaler
    /\ label_encoders \in VocabularySets
    /\ model_metadata = Metadata(TrainedColumns, FALSE, 20000)
    /\ now = 0
    /\ request = None
    /\ response = None
    /\ work = NoWork
    /\ remembered = None
    /\ calls = NoCalls

\* One of the three get_business_category definitions on a point estimate.
Categorize ==
    /\ Idle
    /\ \E fare \in Fares, variant \in {"production", "batch", "development"} :
          /\ request' = [endpoint |-> "get_business_category", variant |-> variant,
                         fare |-> fare]
          /\ response' =
                [kind |-> "category",
                 business_category |->
                     IF variant = "production" THEN get_business_category(fare)
                     ELSE IF variant = "batch" THEN batch_get_business_category(fare)
                     ELSE dev_get_business_category(fare)]
    /\ work' = NoWork
    /\ UNCHANGED <<app, artifact, now, remembered, calls>>

\* engineer_features on a defaulted record: the codes of its encoding loop.
Encode ==
    /\ Idle
    /\ \E trip_data \in EncodingTrips :
          /\ request' = [endpoint |-> "engineer_features", variant |-> "production",
                         body |-> trip_data]
          /\ \E df \in {engineer_features(WithDefaults(trip_data))} :
                response' =
                    IF ~df.ok THEN [kind |-> "raised", error |-> df.error]
                    ELSE [kind |-> "encoded",
                          codes |-> [col \in Range(categorical_columns) |->
                                        IF Encoded(col) \in Range(df.columns)
                                        THEN df.cell[Encoded(col)] ELSE Null]]
    /\ work' = [NoWork EXCEPT !.defaulted = 1, !.engineered = 1]
    /\ UNCHANGED <<app, artifact, now, remembered, calls>>

\* The hours Series.dt.hour gives, and the NaN it gives for NaT.
HourCells == {Whole(h) : h \in 0..23} \cup {NaN}

\* categorize_time of either materializer on an hour.
CategorizeTime ==
    /\ Idle
    /\ \E hour \in HourCells, variant \in {"production", "development"} :
          /\ request' = [endpoint |-> "categorize_time", variant |-> variant, hour |-> hour]
          /\ response' =
                [kind |-> "bucket",
                 time_category |-> IF variant = "production" THEN categorize_time(hour)
                                   ELSE dev_categorize_time(hour)]
    /\ work' = NoWork
    /\ UNCHANGED <<app, artifact, now, remembered, calls>>

\* Records at and around the edges of the distance bins, with a duration or
\* with none.
MaterializeTrips ==
    {[k \in DOMAIN BaseTrip |->
         IF k = "trip_miles" THEN miles
         ELSE IF k = "trip_seconds" THEN seconds
         ELSE BaseTrip[k]] :
        miles \in {Num(0), Num(5000), Whole(1), Num(10100), Whole(3), Num(30100),
                   Num(52000), Whole(7), Num(70100), Whole(15), Num(150100), Whole(1000)},
        seconds \in {Whole(1800), Whole(0)}}

\* Either materializer on a defaulted record: the feature table.
Materialize ==
    /\ Idle
    /\ \E trip_data \in MaterializeTrips, variant \in {"production", "development"} :
          /\ request' = [endpoint |-> "materialize", variant |-> variant,
                         body |-> trip_data]
          /\ \E df \in {IF variant = "production"
                         THEN engineer_features(WithDefaults(trip_data))
                         ELSE dev_engineer_features(WithDefaults(trip_data))} :
                response' = IF ~df.ok THEN [kind |-> "raised", error |-> df.error]
                            ELSE [kind |-> "table", columns |-> df.columns, cell |-> df.cell]
    /\ work' = [NoWork EXCEPT !.defaulted = 1, !.engineered = 1]
    /\ UNCHANGED <<app, artifact, now, remembered, calls>>

NextFunctions ==
    \/ Categorize
    \/ Encode
    \/ CategorizeTime
    \/ Materialize
    \/ Deliver

SpecFunctions == InitFunctions /\ [][NextFunctions]_vars

(***************************************************************************)
(* Several requests in progress at once (threads of one process: app.run   *)
(* serves threaded; under gunicorn.conf.py each sync worker handles one    *)
(* request at a time over its own copy of the preloaded artifact).  Each   *)
(* call has its own request context and its own local variables; the       *)
(* module globals are what the calls have in common.  A call is            *)
(* [endpoint, body, pc, trip_data, df_features, X, predicted_fare,         *)
(*  predictions, response, visited, overlap]: body is the JSON of its      *)
(* request context, pc the statement it stands before, visited the steps   *)
(* it has taken, overlap whether another call was in progress at one of    *)
(* them.                                                                   *)
(***************************************************************************)
ConcurrentTrips ==
    {BaseTrip, EdgeTrip,
     [x \in {} |-> Null],
     Restrict(BaseTrip, DOMAIN BaseTrip \ {"trip_seconds"}),
     Put(BaseTrip, "trip_miles", Num(10000100)),
     Put(BaseTrip, "trip_start_timestamp", Str("not-a-date"))}

ConcurrentBatches ==
    {<<>>, <<EdgeTrip>>,
     <<BaseTrip, Restrict(BaseTrip, DOMAIN BaseTrip \ {"trip_seconds"})>>,
     LongBatch(BATCH_LIMIT + 1)}

ConcurrentMetadata ==
    {Metadata(TrainedColumns, TRUE, 300000),
     Metadata(TrainedColumns, FALSE, 20000),
     Metadata(<<"trip_miles", "pickup_latitude">>, FALSE, 20000)}

\* The module after a successful load, no request in progress.
InitConcurrent ==
    /\ app = "serving"
    /\ model = SimpleLinearModel
    /\ scaler = SimpleScaler
    /\ label_encoders = Vocabularies
    /\ model_metadata \in ConcurrentMetadata
    /\ now = 0
    /\ request = None
    /\ response = None
    /\ work = NoWork
    /\ remembered = None
    /\ calls = NoCalls

NewCall(endpoint, body) ==
    [endpoint |-> endpoint, body |-> body, pc |-> "start", trip_data |-> None,
     df_features |-> None, X |-> None, predicted_fare |-> None, predictions |-> <<>>,
     response |-> None, visited |-> <<>>, overlap |-> FALSE]

At(c, endpoint, pc) ==
    calls[c] # None /\ calls[c].endpoint = endpoint /\ calls[c].pc = pc

\* Another call is in progress.
Overlapping(c) == \E d \in Calls \ {c} : calls[d] # None /\ calls[d].pc # "done"

\* Call c after one more step.
Stepped(c, step) ==
    [calls[c] EXCEPT !.visited = Append(@, step), !.overlap = @ \/ Overlapping(c)]

\* Call c after a step that ends it with a response.
Ended(c, step, reply) == [Stepped(c, step) EXCEPT !.pc = "done", !.response = reply]

\* A faulty request lookup, one slot for the whole process instead of one per
\* request context: while another call is in progress a handler reads that
\* call's JSON.  The independence property is checked against it.
get_json_of_any_call(c) ==
    IF \E d \in Calls \ {c} : calls[d] # None /\ calls[d].endpoint = calls[c].endpoint
    THEN calls[CHOOSE d \in Calls \ {c} :
                   calls[d] # None /\ calls[d].endpoint = calls[c].endpoint].body
    ELSE calls[c].body

\* request.get_json(): flask's request is local to the context of the call.
get_json(c) == calls[c].body

\* A request arrives and its context is set up.
Receive ==
    /\ app = "serving"
    /\ \E c \in Calls :
          /\ calls[c] = None
          /\ \/ \E trip_data \in ConcurrentTrips :
                   calls' = [calls EXCEPT ![c] = NewCall("/predict", trip_data)]
             \/ \E trips_data \in ConcurrentBatches :
                   calls' = [calls EXCEPT ![c] = NewCall("/batch_predict", trips_data)]
    /\ UNCHANGED <<app, artifact, now, request, response, work, remembered>>

\* A faulty presence check that fills in the optional fields before it looks
\* at the record: the step-order property is checked against it.
CheckPresenceAfterDefaults ==
    /\ \E c \in Calls :
          /\ At(c, "/predict", "start")
          /\ \E trip_data \in {WithDefaults(get_json(c))} :
                calls' =
                    [calls EXCEPT ![c] =
                        IF missing_fields(trip_data) # <<>>
                        THEN [Ended(c, "presence",
                                    UserError("Missing required fields",
                                              missing_fields(trip_data)))
                                EXCEPT !.trip_data = trip_data,
                                       !.visited = <<"default", "presence">>]
                        ELSE [Stepped(c, "presence") EXCEPT !.pc = "range",
                                                            !.trip_data = trip_data]]
    /\ UNCHANGED <<app, artifact, now, request, response, work, remembered>>

\* predict_fare 216-229: the JSON of the request, the empty body, the
\* required fields.
CheckPresence ==
    /\ \E c \in Calls :
          /\ At(c, "/predict", "start")
          /\ \E trip_data \in {get_json(c)} :
                calls' =
                    [calls EXCEPT ![c] =
                        IF DOMAIN trip_data = {}
                        THEN [Ended(c, "presence", UserError("Empty request body", <<>>))
                                EXCEPT !.trip_data = trip_data]
                        ELSE IF missing_fields(trip_data) # <<>>
                        THEN [Ended(c, "presence",
                                    UserError("Missing required fields",
                                              missing_fields(trip_data)))
                                EXCEPT !.trip_data = trip_data]
                        ELSE [Stepped(c, "presence") EXCEPT !.pc = "range",
                                                            !.trip_data = trip_data]]
    /\ UNCHANGED <<app, artifact, now, request, response, work, remembered>>

\* predict_fare 231-249: types and ranges.
CheckRange ==
    /\ \E c \in Calls :
          /\ At(c, "/predict", "range")
          /\ \E invalid \in {Validate(calls[c].trip_data)} :
                calls' =
                    [calls EXCEPT ![c] =
                        IF invalid # <<>> THEN Ended(c, "range", invalid[1])
                        ELSE [Stepped(c, "range") EXCEPT !.pc = "default"]]
    /\ UNCHANGED <<app, artifact, now, request, response, work, remembered>>

\* predict_fare 252-253: the optional fields, set on the record itself.
SetDefaults ==
    /\ \E c \in Calls :
          /\ At(c, "/predict", "default")
          /\ calls' = [calls EXCEPT ![c] =
                          [Stepped(c, "default") EXCEPT
                              !.pc = "engineer",
                              !.trip_data = WithDefaults(calls[c].trip_data)]]
    /\ UNCHANGED <<app, artifact, now, request, response, work, remembered>>

\* predict_fare 256: engineer_features, whose exception ends the call (323-329).
Engineer ==
    /\ \E c \in Calls :
          /\ At(c, "/predict", "engineer")
          /\ \E df_features \in {engineer_features(calls[c].trip_data)} :
                calls' =
                    [calls EXCEPT ![c] =
                        IF ~df_features.ok
                        THEN Ended(c, "engineer", ServerError(df_features.error))
                        ELSE [Stepped(c, "engineer") EXCEPT !.pc = "reconcile",
                                                            !.df_features = df_features]]
    /\ UNCHANGED <<app, artifact, now, request, response, work, remembered>>

\* predict_fare 259-277: feature_df filled from the artifact's list, .values.
ReconcileFeatures ==
    /\ \E c \in Calls :
          /\ At(c, "/predict", "reconcile")
          /\ \E feature_df \in {Reconcile(model_metadata.feature_columns,
                                          calls[c].df_features, TRUE)} :
                calls' =
                    [calls EXCEPT ![c] =
                        [Stepped(c, "reconcile") EXCEPT
                            !.pc = IF model_metadata.performance.use_scaled
                                   THEN "scale" ELSE "score",
                            !.X = Values(feature_df) \o <<>>]]
    /\ UNCHANGED <<app, artifact, now, request, response, work, remembered>>

\* predict_fare 280-281: scaler.transform when the metadata asks for it.
ScaleVector ==
    /\ \E c \in Calls :
          /\ At(c, "/predict", "scale")
          /\ \E scaled \in {SimpleScaler_transform(scaler, calls[c].X)} :
                calls' =
                    [calls EXCEPT ![c] =
                        IF ~scaled.ok THEN Ended(c, "scale", ServerError("TypeError"))
                        ELSE [Stepped(c, "scale") EXCEPT !.pc = "score", !.X = scaled.X]]
    /\ UNCHANGED <<app, artifact, now, request, response, work, remembered>>

\* predict_fare 286: model.predict(...)[0].
ScoreVector ==
    /\ \E c \in Calls :
          /\ At(c, "/predict", "score")
          /\ \E out \in {SimpleLinearModel_predict(model, calls[c].X)} :
                calls' =
                    [calls EXCEPT ![c] =
                        IF ~out.ok THEN Ended(c, "score", ServerError("TypeError"))
                        ELSE IF out.predictions = <<>>
                        THEN Ended(c, "score", ServerError("list index out of range"))
                        ELSE [Stepped(c, "score") EXCEPT
                                 !.pc = "respond",
                                 !.predicted_fare = out.predictions[1]]]
    /\ UNCHANGED <<app, artifact, now, request, response, work, remembered>>

\* predict_fare 289-321: the interval, the category, the response.
Respond ==
    /\ \E c \in Calls :
          /\ At(c, "/predict", "respond")
          /\ calls' = [calls EXCEPT ![c] =
                          Ended(c, "interval and category",
                                Prediction(calls[c].predicted_fare))]
    /\ UNCHANGED <<app, artifact, now, request, response, work, remembered>>

\* batch_predict 335-345: the JSON of the request, its 'trips', the limits.
BatchCheck ==
    /\ \E c \in Calls :
          /\ At(c, "/batch_predict", "start")
          /\ \E trips_data \in {get_json(c)} :
                calls' =
                    [calls EXCEPT ![c] =
                        IF trips_data = <<>>
                        THEN [Ended(c, "limit", UserError("No trips provided", <<>>))
                                EXCEPT !.trip_data = trips_data]
                        ELSE IF Len(trips_data) > BATCH_LIMIT
                        THEN [Ended(c, "limit",
                                    UserError("Maximum 100 trips per batch", <<>>))
                                EXCEPT !.trip_data = trips_data]
                        ELSE [Stepped(c, "limit") EXCEPT !.pc = "loop",
                                                         !.trip_data = trips_data]]
    /\ UNCHANGED <<app, artifact, now, request, response, work, remembered>>

\* batch_predict 347-401: one pass of the loop, on the next trip of the list.
BatchPass ==
    /\ \E c \in Calls :
          /\ At(c, "/batch_predict", "loop")
          /\ \E i \in {Len(calls[c].predictions) + 1} :
             \E pass \in {BatchItem(calls[c].trip_data[i], i - 1)} :
                calls' =
                    [calls EXCEPT ![c] =
                        [Stepped(c, "pass") EXCEPT
                            !.pc = IF i = Len(calls[c].trip_data) THEN "respond" ELSE "loop",
                            !.trip_data = [@ EXCEPT ![i] = pass.trip],
                            !.predictions = Append(@, pass.entry)]]
    /\ UNCHANGED <<app, artifact, now, request, response, work, remembered>>

\* batch_predict 403-409: the response with the counts.
BatchRespond ==
    /\ \E c \in Calls :
          /\ At(c, "/batch_predict", "respond")
          /\ calls' = [calls EXCEPT ![c] =
                          Ended(c, "respond",
                                BatchResponse([predictions |-> calls[c].predictions,
                                               work |-> NoWork,
                                               trips_data |-> calls[c].trip_data]).response)]
    /\ UNCHANGED <<app, artifact, now, request, response, work, remembered>>

\* The response is sent and the context of the call is gone.
Return ==
    /\ \E c \in Calls :
          /\ calls[c] # None
          /\ calls[c].pc = "done"
          /\ calls' = [calls EXCEPT ![c] = None]
    /\ UNCHANGED <<app, artifact, now, request, response, work, remembered>>

NextConcurrent ==
    \/ Tick
    \/ Receive
    \/ CheckPresence
    \/ CheckRange
    \/ SetDefaults
    \/ Engineer
    \/ ReconcileFeatures
    \/ ScaleVector
    \/ ScoreVector
    \/ Respond
    \/ BatchCheck
    \/ BatchPass
    \/ BatchRespond
    \/ Return

SpecConcurrent == InitConcurrent /\ [][NextConcurrent]_vars

(***************************************************************************)
(* The properties.                                                         *)
(***************************************************************************)
\* A call of /predict (either application) has been answered and not yet sent.
AnsweredPredict == request # None /\ request.endpoint = "/predict"

AnsweredProduction == AnsweredPredict /\ request.variant = "production"

AnsweredBatch == request # None /\ request.endpoint = "/batch_predict"

\* The column names of the table the reconciliation makes of a record.
ReconciledColumns(trip_data) ==
    Reconcile(model_metadata.feature_columns, engineer_features(WithDefaults(trip_data)),
              TRUE).columns

\* The constraints on the four checked fields, as the contract words them.
Integral(v) == IsNum(v) /\ v.n % Scale = 0

Offending(trip_data) ==
    LET miles == trip_data["trip_miles"]
        seconds == trip_data["trip_seconds"]
        Area(v) == Integral(v) /\ 0 <= v.n /\ v.n <= 77 * Scale
    IN  {f \in {"trip_miles"} : ~(IsNum(miles) /\ 0 < miles.n /\ miles.n <= 1000 * Scale)}
        \cup {f \in {"trip_seconds"} :
                ~(Integral(seconds) /\ 0 < seconds.n /\ seconds.n <= 86400 * Scale)}
        \cup {f \in {"pickup_community_area", "dropoff_community_area"} : ~Area(trip_data[f])}

\* A record the contract calls valid: every required field, every constraint.
ValidRecord(trip_data) == missing_fields(trip_data) = <<>> /\ Offending(trip_data) = {}

\* C1: in every single-record predict call on a valid record that reaches
\* scaling/scoring, the vector handed to the scaler/model has the names of the
\* artifact's feature list, as many and in the same order.
C1_HandedVectorMatchesList ==
    (AnsweredPredict /\ ValidRecord(request.body))
    => \A i \in DOMAIN work.handed : work.handed[i] = model_metadata.feature_columns

\* C2: whenever the reconciled table's names differ from the artifact's
\* feature list in length or order, predict answers with an internal error
\* and the model is not scored.
C2_MismatchIsInternalError ==
    (AnsweredPredict /\ work.reconciled = 1
        /\ ReconciledColumns(request.body) # model_metadata.feature_columns)
    => (response.status = 500 /\ work.scored = 0)

\* C3: a record that lacks required fields, the empty record included, is
\* answered with a 400 that names exactly the set of all its missing required
\* fields, and nothing is scored.
C3_EveryMissingFieldNamed ==
    (AnsweredPredict /\ missing_fields(request.body) # <<>>)
    => /\ response.status = 400
       /\ Range(response.names) = Range(missing_fields(request.body))
       /\ work.scored = 0

\* C4: a record with all required fields is rejected with a 400 naming an
\* offending field if and only if trip_miles is not a number in (0, 1000],
\* or trip_seconds not an integer in (0, 86400], or an area not an integer
\* in 0..77.
C4_RejectsExactlyTheInvalid ==
    (AnsweredProduction /\ missing_fields(request.body) = <<>>)
    => /\ response.status = 400 <=> Offending(request.body) # {}
       /\ response.status = 400 =>
             /\ response.names # <<>>
             /\ Range(response.names) \subseteq Offending(request.body)

\* C5: when a record violates several range constraints at once, the 400
\* names every offending field, not only the first one found.
C5_EveryViolationNamed ==
    (AnsweredProduction /\ missing_fields(request.body) = <<>>
        /\ Cardinality(Offending(request.body)) >= 2 /\ response.status = 400)
    => Range(response.names) = Offending(request.body)

\* C6: the batch result of an item is a success exactly when single-record
\* predict on that item succeeds, and then carries the same estimate,
\* interval and category.
C6_BatchAppliesSingleContract ==
    (AnsweredBatch /\ response.status = 200)
    => \A i \in DOMAIN request.body :
          LET single == predict_fare(request.body[i]).response
              entry == response.predictions[i]
          IN  /\ entry.kind = "prediction" <=> single.status = 200
              /\ entry.kind = "prediction" =>
                    /\ entry.predicted_fare = single.predicted_fare
                    /\ entry.confidence_interval = single.confidence_interval
                    /\ entry.business_category = single.business_category

\* C7: a batch of n items, 1 <= n <= 100, is answered with 200 and n results
\* in input order, result i carrying the index of item i; an item that lacks
\* a required field is an error of its own; every result is the one the item
\* gets in a batch of its own; count = n, failed = k, successful = n - k for
\* the k failed items.
C7_BatchIsolation ==
    (AnsweredBatch /\ Len(request.body) \in 1..BATCH_LIMIT)
    => LET n == Len(request.body)
           predictions == response.predictions
           Alone(i) == batch_predict(<<request.body[i]>>).response.predictions[1]
       IN  /\ response.status = 200
           /\ Len(predictions) = n
           /\ \A i \in 1..n :
                 /\ predictions[i].trip_index = i - 1
                 /\ missing_fields(request.body[i]) # <<>> => predictions[i].kind = "error"
                 /\ predictions[i] = [Alone(i) EXCEPT !.trip_index = i - 1]
           /\ response.count = n
           /\ response.failed = Cardinality({i \in 1..n : predictions[i].kind = "error"})
           /\ response.successful = n - response.failed

\* Three records, the second without a required field: two successes, one error.
C7_Witness ==
    /\ AnsweredBatch
    /\ Len(request.body) = 3
    /\ request.body[1] = BaseTrip
    /\ missing_fields(request.body[2]) # <<>>
    /\ request.body[3] = BaseTrip
    /\ response.successful = 2
    /\ response.failed = 1
    /\ response.predictions[2].kind = "error"
    /\ response.predictions[3].kind = "prediction"

\* C8: a batch of more than 100 items is answered with the one size error,
\* no item of it defaulted, materialized or scored; a batch of exactly 100
\* is processed item by item.
C8_LimitEnforcedUpFront ==
    AnsweredBatch
    => /\ Len(request.body) > BATCH_LIMIT =>
             /\ response.status = 400
             /\ response.error = "Maximum 100 trips per batch"
             /\ work = NoWork
       /\ Len(request.body) = BATCH_LIMIT =>
             /\ response.status = 200
             /\ Len(response.predictions) = BATCH_LIMIT
             /\ work.defaulted = BATCH_LIMIT

C8_Witness ==
    /\ AnsweredBatch
    /\ Len(request.body) = BATCH_LIMIT + 1
    /\ response.status = 400
    /\ work = NoWork

\* The current call repeats the remembered one: same application, same record.
Repeated ==
    /\ AnsweredPredict
    /\ remembered # None
    /\ remembered.request = request

Payload(r) == [k \in DOMAIN r \ {"timestamp"} |-> r[k]]

Floored(v) == IsNum(v) /\ v.n >= MIN_FARE

C10_LowerBoundFloor ==
    /\ (AnsweredPredict /\ response.status = 200)
       => Floored(response.confidence_interval.lower)
    /\ (AnsweredBatch /\ response.status = 200)
       => \A i \in DOMAIN response.predictions :
             response.predictions[i].kind = "prediction"
             => Floored(response.predictions[i].confidence_interval.lower)

\* A success whose estimate less the RMSE is below the minimum fare.
C10_Witness ==
    /\ AnsweredPredict
    /\ response.status = 200
    /\ IsNum(response.predicted_fare)
    /\ response.predicted_fare.n - model_metadata.performance.test_rmse < MIN_FARE
    /\ response.confidence_interval.lower = Num(MIN_FARE)

\* C11: the business category of a point estimate p is Budget for p < 10,
\* Standard for 10 <= p < 20, Premium for 20 <= p < 40, Luxury for p >= 40,
\* one of these four labels for every float, and the same by the definition
\* of single predict, of batch predict and of the development variant.
C11_CategoryTable ==
    (request # None /\ request.endpoint = "get_business_category")
    => LET p == request.fare
           label == response.business_category
       IN  /\ label \in {"Budget", "Standard", "Premium", "Luxury"}
           /\ IsNum(p) =>
                 /\ p.n < 10 * Scale => label = "Budget"
                 /\ (10 * Scale <= p.n /\ p.n < 20 * Scale) => label = "Standard"
                 /\ (20 * Scale <= p.n /\ p.n < 40 * Scale) => label = "Premium"
                 /\ p.n >= 40 * Scale => label = "Luxury"
           /\ label = get_business_category(p)
           /\ label = batch_get_business_category(p)
           /\ label = dev_get_business_category(p)

\* The estimate 10.00, the first limit, is Standard.
C11_Witness ==
    /\ request # None
    /\ request.endpoint = "get_business_category"
    /\ request.variant = "batch"
    /\ request.fare = Whole(10)
    /\ response.business_category = "Standard"

\* The value the encoding loop sees in a categorical column of a record.
CategoryText(trip_data, col) ==
    IF col = "time_category"
    THEN categorize_time(to_datetime(trip_data["trip_start_timestamp"]).hour)
    ELSE IF col = "distance_category"
    THEN (IF trip_data["trip_miles"] = Whole(2) THEN "short"
          ELSE IF trip_data["trip_miles"] = Num(52000) THEN "medium" ELSE "very_long")
    ELSE LET v == Get(trip_data, col,
                      IF col = "payment_type" THEN Str("Credit Card")
                      ELSE Str("Chicago Taxi"))
         IN  IF v.t = "str" THEN v.s ELSE "other"

\* C14: the encoding never raises; a value of the column's vocabulary gets
\* its code there, a value the vocabulary lacks gets 0, and a column the
\* artifact ships no vocabulary for gets 0.
C14_EncodingPolicy ==
    (request # None /\ request.endpoint = "engineer_features")
    => /\ response.kind = "encoded"
       /\ \A col \in Range(categorical_columns) :
             LET text == CategoryText(request.body, col)
                 code == response.codes[col]
             IN  IF col \in DOMAIN label_encoders
                 THEN LET vocabulary == label_encoders[col]
                      IN  /\ \A i \in DOMAIN vocabulary :
                                vocabulary[i] = text => code = Whole(i - 1)
                          /\ text \notin Range(vocabulary) => code = Whole(0)
                 ELSE code = Whole(0)

\* A payment method the shipped vocabulary has never seen.
C14_Witness ==
    /\ request # None
    /\ request.endpoint = "engineer_features"
    /\ "payment_type" \in DOMAIN request.body
    /\ request.body["payment_type"] = Str("Bitcoin")
    /\ "payment_type" \in DOMAIN label_encoders
    /\ response.kind = "encoded"
    /\ response.codes["payment_type"] = Whole(0)

\* C12: the application serves only after one load that read all four
\* components; when the load of any one fails the start is aborted and no
\* request is ever handled.
C12_FailFast ==
    /\ app = "serving" =>
          /\ model # None
          /\ scaler # None
          /\ label_encoders # None
          /\ model_metadata # None
    /\ request # None => app = "serving"
    /\ app = "aborted" => (request = None /\ response = None)

\* A start aborted by the metadata file after the three pickles were read.
C12_Witness ==
    /\ app = "aborted"
    /\ model # None
    /\ scaler # None
    /\ label_encoders # None
    /\ model_metadata = None

\* C13: once the application serves, no step changes the model, the scaler,
\* the vocabularies or the metadata.
C13_ArtifactImmutable ==
    [][app = "serving" => artifact' = artifact]_vars

\* A batch with a failed item has been answered over the loaded artifact.
C13_Witness ==
    /\ AnsweredBatch
    /\ response.status = 200
    /\ response.failed > 0
    /\ response.successful > 0
    /\ artifact = <<SimpleLinearModel, SimpleScaler, Vocabularies,
                    Metadata(TrainedColumns, TRUE, 300000)>>

\* The record with each omitted optional field written out as its default.
Completed(trip_data) ==
    [k \in DOMAIN trip_data \cup DOMAIN OptionalDefaults |->
        IF k \in DOMAIN trip_data THEN trip_data[k] ELSE OptionalDefaults[k]]

\* The reply of the application that answered, on another record.
SameApplication(trip_data) ==
    IF request.variant = "production" THEN predict_fare(trip_data).response
    ELSE dev_predict_fare(trip_data).response

\* C15: for a record with valid required fields and any subset of the
\* optional fields omitted, the materialization succeeds with the omitted
\* fields at their defaults ('Credit Card', 'Chicago Taxi', 41.8781,
\* -87.6298), predict answers exactly as for the record with the defaults
\* written out, and it succeeds on the artifact the model classes are for.
C15_OptionalFieldsDefaulted ==
    (AnsweredPredict /\ ValidRecord(request.body))
    => LET df == engineer_features(WithDefaults(request.body))
       IN  /\ work.engineered = 1
           /\ df.ok
           /\ \A k \in DOMAIN OptionalDefaults \ DOMAIN request.body :
                 df.cell[k] = OptionalDefaults[k]
           /\ response.status # 400
           /\ response.status = 500 =>
                 "Feature engineering failed" \notin
                     {response.error, Get(response, "message", "")}
           /\ Payload(response) = Payload(SameApplication(Completed(request.body)))
           /\ model_metadata.feature_columns = TrainedColumns => response.status = 200

\* A record with no optional field, scored on its default pickup latitude.
C15_Witness ==
    /\ AnsweredProduction
    /\ request.body = BaseTrip
    /\ model_metadata.feature_columns = <<"trip_miles", "pickup_latitude">>
    /\ response.status = 200
    /\ work.scored = 1

\* C16: a fault of the request content is never answered with an internal
\* error: over an artifact that serves the sample record, every reply of
\* predict is a success or a 400.
C16_ContentFaultIsUserError ==
    (AnsweredProduction /\ predict_fare(BaseTrip).response.status = 200)
    => response.status \in {200, 400}

\* The cell the contract puts under a name of the list for a record: the
\* materialized value when the materializer produced the column, otherwise
\* the default that goes with the name.
ContractCell(trip_data, col) ==
    LET df_features == engineer_features(WithDefaults(trip_data))
    IN  IF col \in Range(df_features.columns) THEN df_features.cell[col]
        ELSE IF col \in LatitudeNames THEN Num(418781)
        ELSE IF col \in LongitudeNames THEN Num(-876298)
        ELSE IF col \in DensityNames THEN Whole(50)
        ELSE Whole(0)

\* The vector handed for a record is one row with the contract's cell under
\* every name it carries, and it carries every name of the list.
ContractVector(trip_data, names, X_values) ==
    /\ Len(X_values) = 1
    /\ Range(names) = Range(model_metadata.feature_columns)
    /\ \A j \in DOMAIN names : X_values[1][j] = ContractCell(trip_data, names[j])

\* C19: in single and in batch mode, the vector handed to scaling/scoring for
\* a valid record holds, under every name of the artifact's list, the
\* materialized value if the materializer made that column and otherwise the
\* default by the name (41.8781 latitude, -87.6298 longitude, 50 density,
\* else 0).
C19_ReconciledByPattern ==
    /\ (AnsweredPredict /\ ValidRecord(request.body))
        => \A i \in DOMAIN work.vectors :
              ContractVector(request.body, work.handed[i], work.vectors[i])
    /\ (AnsweredBatch /\ Len(work.vectors) = Len(request.body)
            /\ \A k \in DOMAIN request.body : ValidRecord(request.body[k]))
        => \A k \in DOMAIN work.vectors :
              ContractVector(request.body[k], work.handed[k], work.vectors[k])

\* C19 for the production /predict alone, with a list that starts with a
\* column the materializer made.
C19_SingleAfterMaterialized ==
    (AnsweredProduction /\ ValidRecord(request.body)
        /\ model_metadata.feature_columns # <<>>
        /\ model_metadata.feature_columns[1] = "trip_miles")
    => \A i \in DOMAIN work.vectors :
          ContractVector(request.body, work.handed[i], work.vectors[i])

\* C19 for /batch_predict alone, with a list that starts with a column the
\* materializer made: every name of the list holds the materialized value or
\* the default by its name.
C19_BatchByPattern ==
    (AnsweredBatch /\ Len(work.vectors) = Len(request.body)
        /\ model_metadata.feature_columns # <<>>
        /\ model_metadata.feature_columns[1] = "trip_miles"
        /\ \A k \in DOMAIN request.body : ValidRecord(request.body[k]))
    => \A k \in DOMAIN work.vectors :
          ContractVector(request.body[k], work.handed[k], work.vectors[k])

\* C18: predict and batch predict leave their input alone: after a call,
\* answered 200 or not, every input record has the fields and values it had
\* before the call.
C18_InputUntouched ==
    (AnsweredPredict \/ AnsweredBatch) => request.trip_data = request.body

\* C18 for the calls that are rejected before the optional fields are
\* defaulted: these leave the record as it was.
C18_RejectedInputUntouched ==
    (AnsweredPredict /\ work.defaulted = 0) => request.trip_data = request.body

\* What the handler of a call answers when it runs alone on the call's JSON.
Alone(call) ==
    IF call.endpoint = "/predict" THEN predict_fare(call.body).response
    ELSE batch_predict(call.body).response

Finished(c) == calls[c] # None /\ calls[c].pc = "done"

\* C17: with predict and batch predict calls in progress at once over one
\* loaded artifact, under every interleaving of their steps, every call
\* answers what its handler answers when it runs alone on the same request
\* (the timestamp, which is the clock's and no call's, apart).
C17_CallsIndependent ==
    \A c \in Calls :
        Finished(c) => Payload(calls[c].response) = Payload(Alone(calls[c]))

\* Two calls on different records were in progress at once and both have
\* answered, one of them with an estimate.
C17_Witness ==
    /\ \A c \in Calls : Finished(c) /\ calls[c].overlap
    /\ calls["first"].endpoint = "/predict"
    /\ calls["second"].endpoint = "/predict"
    /\ calls["first"].body = BaseTrip
    /\ calls["second"].body = EdgeTrip
    /\ calls["first"].response.status = 200
    /\ calls["first"].response.predicted_fare
           # calls["second"].response.predicted_fare

\* The steps of a single-record predict, in order; scaling only when the
\* artifact's metadata asks for it.
StepOrder ==
    <<"presence", "range", "default", "engineer", "reconcile">>
        \o (IF model_metadata.performance.use_scaled THEN <<"scale">> ELSE <<>>)
        \o <<"score", "interval and category">>

IsPrefix(s, t) == Len(s) <= Len(t) /\ \A i \in DOMAIN s : s[i] = t[i]

\* C20: the steps of a single-record predict run in the order presence
\* check, type/range check, optional-field defaulting, materialization,
\* reconciliation, optional scaling, scoring, interval and category; a call
\* rejected by the presence check or the type/range check has taken no
\* later step: its record has no defaulted field, nothing was materialized,
\* no vector was built or scored.
C20_StepsInOrder ==
    \A c \in Calls :
        (calls[c] # None /\ calls[c].endpoint = "/predict")
        => /\ IsPrefix(calls[c].visited, StepOrder)
           /\ (Finished(c) /\ calls[c].response.status = 400)
               => /\ calls[c].visited \in {<<"presence">>, <<"presence", "range">>}
                  /\ calls[c].trip_data = calls[c].body
                  /\ calls[c].df_features = None
                  /\ calls[c].X = None
                  /\ calls[c].predicted_fare = None

\* One call was rejected by the type/range check, another went through every
\* step, scaling included.
C20_Witness ==
    /\ Finished("first")
    /\ calls["first"].endpoint = "/predict"
    /\ calls["first"].response.status = 400
    /\ calls["first"].visited = <<"presence", "range">>
    /\ Finished("second")
    /\ calls["second"].endpoint = "/predict"
    /\ calls["second"].response.status = 200
    /\ Len(calls["second"].visited) = 8

\* The time-of-day bucket of the contract for a whole hour.
BucketOf(h) ==
    IF 5 <= h /\ h < 9 THEN "morning_rush"
    ELSE IF 9 <= h /\ h < 16 THEN "daytime"
    ELSE IF 16 <= h /\ h < 20 THEN "evening_rush"
    ELSE IF 20 <= h /\ h < 24 THEN "evening"
    ELSE "night"

AskedBucket == request # None /\ request.endpoint = "categorize_time"

\* C21: every hour h of 0..23 gets one bucket, morning_rush for 5 <= h < 9,
\* daytime for 9 <= h < 16, evening_rush for 16 <= h < 20, evening for
\* 20 <= h < 24 and night for 0..4, and the development and the production
\* materializer give the same bucket.
C21_TimeBuckets ==
    (AskedBucket /\ IsNum(request.hour))
    => /\ response.time_category = BucketOf(request.hour.n \div Scale)
       /\ categorize_time(request.hour) = dev_categorize_time(request.hour)

\* Hour 16, a lower edge, asked of the development materializer.
C21_Witness ==
    /\ AskedBucket
    /\ request.variant = "development"
    /\ request.hour = Whole(16)
    /\ response.time_category = "evening_rush"

\* C22 as stated: the materializer maps hour 4 to night, 5 and 8 to
\* morning_rush, 9 to daytime, 19 to evening_rush, 20 to evening and 23 to
\* night.
C22_BoundaryTableWithNightAt23 ==
    (AskedBucket /\ request.variant = "production" /\ IsNum(request.hour))
    => LET h == request.hour.n \div Scale
           bucket == response.time_category
       IN  /\ h = 4 => bucket = "night"
           /\ h \in {5, 8} => bucket = "morning_rush"
           /\ h = 9 => bucket = "daytime"
           /\ h = 19 => bucket = "evening_rush"
           /\ h = 20 => bucket = "evening"
           /\ h = 23 => bucket = "night"

\* C22, amended: the materializer maps hour 4 to night, 5 and 8 to
\* morning_rush, 9 to daytime, 19 to evening_rush, 20 to evening and 23 to
\* evening.
C22_BoundaryTable ==
    (AskedBucket /\ request.variant = "production" /\ IsNum(request.hour))
    => LET h == request.hour.n \div Scale
           bucket == response.time_category
       IN  /\ h = 4 => bucket = "night"
           /\ h \in {5, 8} => bucket = "morning_rush"
           /\ h = 9 => bucket = "daytime"
           /\ h = 19 => bucket = "evening_rush"
           /\ h \in {20, 23} => bucket = "evening"

\* Hour 23 asked of the production materializer.
C22_Witness ==
    /\ AskedBucket
    /\ request.variant = "production"
    /\ request.hour = Whole(23)
    /\ response.time_category = "evening"

Materialized == request # None /\ request.endpoint = "materialize"

\* The distance bucket of the contract for a distance in ten-thousandths of
\* a mile: "none" when the distance is in no bucket.
DistanceBucketOf(d) ==
    IF 0 < d /\ d <= 1 * Scale THEN "very_short"
    ELSE IF 1 * Scale < d /\ d <= 3 * Scale THEN "short"
    ELSE IF 3 * Scale < d /\ d <= 7 * Scale THEN "medium"
    ELSE IF 7 * Scale < d /\ d <= 15 * Scale THEN "long"
    ELSE IF 15 * Scale < d THEN "very_long"
    ELSE "none"

\* C23: the distance buckets are (0,1] very_short, (1,3] short, (3,7] medium,
\* (7,15] long, (15,inf) very_long, so that 1.0 is very_short, 1.01 short,
\* 3.0 short, 7.0 medium, 15.0 long and 15.01 very_long; a distance of 0 is
\* in no bucket, its distance_category_encoded is 0, and the materializer
\* raises nothing on it.
C23_DistanceBuckets ==
    Materialized
    => /\ response.kind = "table"
       /\ LET d == request.body["trip_miles"].n
              bucket == response.cell["distance_category"]
          IN  IF DistanceBucketOf(d) = "none"
              THEN /\ bucket = NaN
                   /\ response.cell["distance_category_encoded"] = Whole(0)
              ELSE bucket = Str(DistanceBucketOf(d))
       /\ LET Miles(d) == request.body["trip_miles"] = Num(d)
              Is(label) == response.cell["distance_category"] = Str(label)
          IN  /\ Miles(10000) => Is("very_short")
              /\ Miles(10100) => Is("short")
              /\ Miles(30000) => Is("short")
              /\ Miles(70000) => Is("medium")
              /\ Miles(150000) => Is("long")
              /\ Miles(150100) => Is("very_long")

\* A record with distance 0 went through the development materializer.
C23_Witness ==
    /\ Materialized
    /\ request.variant = "development"
    /\ request.body["trip_miles"] = Num(0)
    /\ response.kind = "table"
    /\ response.cell["distance_category"] = NaN
    /\ response.cell["distance_category_encoded"] = Whole(0)

\* C24: in every feature table the speed is distance / (minutes / 60) when
\* the duration is positive and the fallback 20.0 when it is zero, and the
\* speed column never holds NaN or an infinite value.
C24_SpeedIsFinite ==
    (Materialized /\ response.kind = "table")
    => LET miles == request.body["trip_miles"]
           seconds == request.body["trip_seconds"]
           speed == response.cell["speed_mph"]
       IN  /\ IsNum(speed)
           /\ seconds.n > 0 => speed = Div(miles, Div(Div(seconds, Whole(60)), Whole(60)))
           /\ seconds.n = 0 => speed = Whole(20)

\* C24 for the records with a positive duration or with neither duration
\* nor distance.
C24_SpeedWithDuration ==
    (Materialized /\ response.kind = "table"
        /\ (request.body["trip_seconds"].n > 0 \/ request.body["trip_miles"].n = 0))
    => LET miles == request.body["trip_miles"]
           seconds == request.body["trip_seconds"]
           speed == response.cell["speed_mph"]
       IN  /\ IsNum(speed)
           /\ seconds.n > 0 => speed = Div(miles, Div(Div(seconds, Whole(60)), Whole(60)))
           /\ seconds.n = 0 => speed = Whole(20)

\* No cell of any vector handed to the scaler or the model is undefined.
DefinedVectors ==
    \A i \in DOMAIN work.vectors :
        \A r \in DOMAIN work.vectors[i] :
            \A j \in DOMAIN work.vectors[i][r] :
                work.vectors[i][r][j].t \notin {"nan", "null"}

\* C25: in every predict path (production single, production batch,
\* development) a cell of the reconciled vector that is still undefined is
\* replaced by 0 before scaling and scoring: the scaler and the model never
\* receive an undefined value.
C25_UndefinedCellsSwept ==
    (AnsweredPredict \/ AnsweredBatch) => DefinedVectors

\* C25 for the development /predict alone, which sweeps with fillna(0).
C25_DevelopmentSweeps ==
    (AnsweredPredict /\ request.variant = "development") => DefinedVectors

\* The feature table the materializer of the answering application makes of
\* the record it was given.
TableOf(r) ==
    IF r.variant = "production" THEN engineer_features(r.trip_data)
    ELSE dev_engineer_features(r.trip_data)

\* C26: for the record 5.2 miles, 1800 s, pickup 73, dropoff 53, start
\* 2021-06-15T14:30:00 the materializer yields hour 14, time bucket daytime,
\* weekend flag 0, distance bucket medium and high-demand pickup 1, 73 being
\* in the set {73, 53, 23, 32, 69}; over an artifact with the trained feature
\* list predict answers a success with a point estimate, an interval whose
\* lower bound is at least 5.0 and one of the four labels.
C26_WorkedExample ==
    (AnsweredPredict /\ request.body = BaseTrip
        /\ model_metadata.feature_columns = TrainedColumns)
    => /\ TableOf(request).ok
       /\ TableOf(request).cell["hour"] = Whole(14)
       /\ TableOf(request).cell["time_category"] = Str("daytime")
       /\ TableOf(request).cell["is_weekend"] = Whole(0)
       /\ TableOf(request).cell["distance_category"] = Str("medium")
       /\ TableOf(request).cell["is_high_demand_pickup"] = Whole(1)
       /\ high_demand_areas = {73, 53, 23, 32, 69}
       /\ response.status = 200
       /\ IsNum(response.predicted_fare)
       /\ IsNum(response.confidence_interval.lower)
       /\ response.confidence_interval.lower.n >= 5 * Scale
       /\ response.business_category \in {"Budget", "Standard", "Premium", "Luxury"}

\* The production /predict has answered the example over the trained list.
C26_Witness ==
    /\ AnsweredProduction
    /\ request.body = BaseTrip
    /\ model_metadata.feature_columns = TrainedColumns
    /\ work.scored = 1
    /\ response.status = 200

\* A returned interval that has the returned estimate inside.
BandAround(payload) ==
    /\ IsNum(payload.confidence_interval.lower)
    /\ IsNum(payload.confidence_interval.upper)
    /\ payload.confidence_interval.lower.n <= payload.predicted_fare.n
    /\ payload.predicted_fare.n <= payload.confidence_interval.upper.n

\* C27: in every success result with a numeric point estimate, also one
\* below the 5.0 floor, the interval is a band around the estimate:
\* lower <= predicted_fare <= upper.
C27_IntervalAroundEstimate ==
    /\ (AnsweredPredict /\ response.status = 200 /\ IsNum(response.predicted_fare))
       => BandAround(response)
    /\ (AnsweredBatch /\ response.status = 200)
       => \A i \in DOMAIN response.predictions :
             (response.predictions[i].kind = "prediction"
                 /\ IsNum(response.predictions[i].predicted_fare))
             => BandAround(response.predictions[i])

\* C27 for the estimates of at least 5.0.
C27_IntervalAroundEstimateFromFloor ==
    (AnsweredPredict /\ response.status = 200 /\ IsNum(response.predicted_fare)
        /\ response.predicted_fare.n >= MIN_FARE)
    => BandAround(response)

\* The label the category table gives the fare a payload returns.
LabelOfReturned(payload) ==
    LET p == payload.predicted_fare.n
    IN  IF p < 10 * Scale THEN "Budget"
        ELSE IF p < 20 * Scale THEN "Standard"
        ELSE IF p < 40 * Scale THEN "Premium"
        ELSE "Luxury"

\* C28: in every success result the business_category is the label of the
\* predicted_fare returned in the same payload, the estimate rounded to two
\* decimals: below 10 Budget, below 20 Standard, below 40 Premium, otherwise
\* Luxury, also for an estimate within half a cent below a threshold.
C28_CategoryOfReturnedFare ==
    /\ (AnsweredPredict /\ response.status = 200 /\ IsNum(response.predicted_fare))
       => response.business_category = LabelOfReturned(response)
    /\ (AnsweredBatch /\ response.status = 200)
       => \A i \in DOMAIN response.predictions :
             (response.predictions[i].kind = "prediction"
                 /\ IsNum(response.predictions[i].predicted_fare))
             => response.predictions[i].business_category
                    = LabelOfReturned(response.predictions[i])

\* C29: over an artifact with the trained feature list, every record that
\* passes the presence and the type/range checks of the production /predict
\* and whose timestamp parses is answered with a success, never a 500: what
\* the checks accept after coercion, the materializer can process.
C29_ValidationSufficient ==
    (AnsweredProduction /\ model_metadata.feature_columns = TrainedColumns
        /\ work.defaulted = 1
        /\ to_datetime(request.body["trip_start_timestamp"]).ok)
    => response.status = 200

\* C29 for the records whose checked fields are JSON numbers.
C29_ValidationSufficientForNumbers ==
    (AnsweredProduction /\ model_metadata.feature_columns = TrainedColumns
        /\ work.defaulted = 1
        /\ to_datetime(request.body["trip_start_timestamp"]).ok
        /\ \A f \in {"trip_miles", "trip_seconds", "pickup_community_area",
                      "dropoff_community_area"} : request.body[f].t # "str")
    => response.status = 200

\* What the other application's /predict does with the record of the call.
OtherVariant(r) ==
    IF r.variant = "production" THEN dev_predict_fare(r.body) ELSE predict_fare(r.body)

\* The estimate, the interval and the category of a success payload.
Outcome(payload) ==
    [predicted_fare |-> payload.predicted_fare,
     confidence_interval |-> payload.confidence_interval,
     business_category |-> payload.business_category]

\* The call and the other application's call on the same record agree on
\* the feature table, on the vector handed on and on the outcome.
SameAsOtherVariant ==
    /\ engineer_features(request.trip_data) = dev_engineer_features(request.trip_data)
    /\ work.vectors = OtherVariant(request).work.vectors
    /\ Outcome(response) = Outcome(OtherVariant(request).response)

\* C30: for every record that both the development and the production
\* /predict answer with a success over one artifact, the two build the same
\* feature table, hand the same reconciled vector to the scaler/model and
\* return the same point estimate, interval and category.
C30_VariantsEquivalent ==
    (AnsweredPredict /\ response.status = 200
        /\ OtherVariant(request).response.status = 200)
    => SameAsOtherVariant

\* C30 for the valid records over the trained feature list.
C30_VariantsEquivalentOnTrainedList ==
    (AnsweredPredict /\ response.status = 200
        /\ OtherVariant(request).response.status = 200
        /\ ValidRecord(request.body)
        /\ model_metadata.feature_columns = TrainedColumns)
    => SameAsOtherVariant

=============================================================================
